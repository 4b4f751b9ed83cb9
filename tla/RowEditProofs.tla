--------------------------- MODULE RowEditProofs ----------------------------
(***************************************************************************)
(* Proofs about RowEdit, for any screen of at least one row and two        *)
(* columns, any tail of a cluster, and sessions of any length.             *)
(*                                                                         *)
(* Between two verbs the screen is Whole.  Local: every row is Fit (a bit  *)
(* of a cell says that the map's entry is the cell's own, whatever else    *)
(* lies in the maps; a vacated column is the blank end of a wrapping row), *)
(* and the consumer's view is as Painted wherever nothing is damaged.      *)
(* Pairs: the border of two columns is Sound, it lies between the halves of*)
(* a pair on both sides or on neither.  Backed: below a vacated column is  *)
(* the pair it was vacated for.  Parked: a cursor that is about to wrap at *)
(* the end of a region has not vacated its own column.                     *)
(*                                                                         *)
(* Within a verb the screen is not whole: each part has a hole, the cells  *)
(* not told yet, the borders open, the row not backed.  A lemma about an   *)
(* operator says what it does to the holes, and a verb closes those it     *)
(* opened.                                                                 *)
(*                                                                         *)
(* PackedCell, for any sets of characters, payloads and flags.  SoundWords *)
(* says that each of the three words uses the bits that are its own and no *)
(* other, and that the underline style is one of the six there are.  With  *)
(* the readers' answers being what was set last, that is what an operation *)
(* on one word needs to leave the answers of all the others alone.         *)
(***************************************************************************)
EXTENDS RowEdit, PackedCell, Iteration, TLAPS

----------------------------------------------------------------------------
(* Types. *)
Kinds == {"blank", "glyph", "wide", "spacer"}
Cell == [k : Kinds, lead : BOOLEAN, linked : BOOLEAN, marked : BOOLEAN, own : Nat, ownMarks : Nat]
SideMap == UNION {[D -> Nat] : D \in SUBSET Int}
Row == [cells : [0..LastCol -> Cell], links : SideMap, marks : SideMap, wrapped : BOOLEAN]
Paint == Kinds \X Nat \X Nat \X BOOLEAN
Saved == [row : 0..LastRow, col : 0..LastCol, park : BOOLEAN, pen : 0..1]
State == [rows : [0..LastRow -> Row], back : [wrapped : BOOLEAN, lead : BOOLEAN],
          row : 0..LastRow, col : 0..LastCol, park : BOOLEAN, top : 0..LastRow, bottom : 0..LastRow, pen : 0..1,
          autowrap : BOOLEAN, insert : BOOLEAN, cluster : BOOLEAN, reverse : BOOLEAN,
          saved : Saved, returned : BOOLEAN,
          view : [0..LastRow -> [0..LastCol -> Paint]], dmg : SUBSET ((0..LastRow) \X (0..LastCol))]

\* A bit of the cell says that the map's entry is the cell's own.
FitAt(row, c) ==
  /\ row.cells[c].linked => c \in DOMAIN row.links /\ row.links[c] = row.cells[c].own
  /\ ~row.cells[c].linked => row.cells[c].own = 0
  /\ row.cells[c].marked => c \in DOMAIN row.marks /\ row.marks[c] = row.cells[c].ownMarks
  /\ ~row.cells[c].marked => row.cells[c].ownMarks = 0
LeadFits(row, c) == row.cells[c].lead => c = LastCol /\ row.cells[c].k = "blank" /\ row.wrapped
Fit(row) == \A c \in 0..LastCol : FitAt(row, c) /\ LeadFits(row, c)
Painted(row, c) == <<row.cells[c].k, LinkAt(row, c), MarksAt(row, c), c = LastCol /\ row.wrapped>>

----------------------------------------------------------------------------
(* Rows.                                                                   *)
LEMMA Sizes == /\ LastRow \in Nat /\ LastCol \in Nat /\ Rows = LastRow + 1 /\ Cols = LastCol + 1
               /\ Rows \in Nat /\ Cols \in Nat /\ LastCol >= 1 /\ 0 \in 0..LastCol /\ LastCol \in 0..LastCol /\ 0 \in 0..LastRow
               /\ LastRow \in 0..LastRow
  BY RowAssumption DEF LastRow, LastCol

LEMMA Updated ==
  ASSUME NEW m, NEW key, NEW v
  PROVE  /\ \A d : d # key => (d \in DOMAIN Update(m, key, v) <=> d \in DOMAIN m)
         /\ \A d \in DOMAIN m : d # key => Update(m, key, v)[d] = m[d]
         /\ key \in DOMAIN Update(m, key, v) /\ Update(m, key, v)[key] = v
  BY DEF Update

LEMMA UpdatedTyped ==
  ASSUME NEW m \in SideMap, NEW key \in Int, NEW v \in Nat
  PROVE  Update(m, key, v) \in SideMap
  <1>1. PICK D \in SUBSET Int : m \in [D -> Nat]
    BY DEF SideMap
  <1>2. Update(m, key, v) \in [D \cup {key} -> Nat]
    BY <1>1 DEF Update
  <1>3. D \cup {key} \in SUBSET Int
    OBVIOUS
  <1>4. QED
    BY <1>2, <1>3 DEF SideMap

LEMMA Dropping ==
  ASSUME NEW m, NEW keys
  PROVE  /\ DOMAIN Without(m, keys) = DOMAIN m \ keys
         /\ \A x \in DOMAIN m \ keys : Without(m, keys)[x] = m[x]
  BY DEF Without

LEMMA DroppingTyped ==
  ASSUME NEW m \in SideMap, NEW keys
  PROVE  Without(m, keys) \in SideMap
  <1>1. PICK D \in SUBSET Int : m \in [D -> Nat]
    BY DEF SideMap
  <1>2. Without(m, keys) \in [D \ keys -> Nat]
    BY <1>1 DEF Without
  <1>3. D \ keys \in SUBSET Int
    OBVIOUS
  <1>4. QED
    BY <1>2, <1>3 DEF SideMap

LEMMA NoEntries == <<>> \in SideMap
  <1>1. <<>> \in [{} -> Nat]
    OBVIOUS
  <1>2. {} \in SUBSET Int
    OBVIOUS
  <1>3. QED
    BY <1>1, <1>2 DEF SideMap

LEMMA BlankTyped == /\ Blank \in Cell /\ Blank.k = "blank" /\ ~Blank.lead /\ ~Blank.linked /\ ~Blank.marked
                    /\ Blank.own = 0 /\ Blank.ownMarks = 0
  BY DEF Blank, Cell, Kinds

\* What is painted of two rows is the same where the cell reads the same.
LEMMA PaintedAlike ==
  ASSUME NEW x \in Row, NEW y \in Row, NEW c \in 0..LastCol,
         y.cells[c].k = x.cells[c].k, LinkAt(y, c) = LinkAt(x, c), MarksAt(y, c) = MarksAt(x, c),
         c = LastCol => y.wrapped = x.wrapped
  PROVE  Painted(y, c) = Painted(x, c)
  <1>1. CASE c = LastCol
    BY <1>1 DEF Painted
  <1>2. CASE c # LastCol
    BY <1>2 DEF Painted
  <1>3. QED
    BY <1>1, <1>2

\* A cell whose entries and bits are untouched reads the same.
LEMMA ReadAlike ==
  ASSUME NEW x \in Row, NEW y \in Row, NEW c \in 0..LastCol, y.cells[c] = x.cells[c], y.wrapped = x.wrapped,
         c \in DOMAIN y.links <=> c \in DOMAIN x.links, c \in DOMAIN x.links => y.links[c] = x.links[c],
         c \in DOMAIN y.marks <=> c \in DOMAIN x.marks, c \in DOMAIN x.marks => y.marks[c] = x.marks[c]
  PROVE  /\ Painted(y, c) = Painted(x, c)
         /\ FitAt(x, c) => FitAt(y, c)
         /\ LeadFits(x, c) => LeadFits(y, c)
  <1>1. LinkAt(y, c) = LinkAt(x, c) /\ MarksAt(y, c) = MarksAt(x, c)
    BY DEF LinkAt, MarksAt
  <1>2. Painted(y, c) = Painted(x, c)
    BY <1>1, PaintedAlike
  <1>3. QED
    BY <1>2 DEF FitAt, LeadFits

\* purge_side_maps after some cells became blank.
Cleared(x, S) == PurgeSideMaps([x EXCEPT !.cells = [d \in 0..LastCol |-> IF d \in S THEN Blank ELSE x.cells[d]]], S)
LEMMA RowCleared ==
  ASSUME NEW x \in Row, Fit(x), NEW S
  PROVE  /\ Cleared(x, S) \in Row
         /\ Fit(Cleared(x, S))
         /\ Cleared(x, S).wrapped = x.wrapped
         /\ \A c \in 0..LastCol : c \in S => Cleared(x, S).cells[c] = Blank
         /\ \A c \in 0..LastCol : c \notin S => Cleared(x, S).cells[c] = x.cells[c] /\ Painted(Cleared(x, S), c) = Painted(x, c)
  <1>1. PICK cells \in [0..LastCol -> Cell] : cells = [d \in 0..LastCol |-> IF d \in S THEN Blank ELSE x.cells[d]]
    <2>1. x.cells \in [0..LastCol -> Cell]
      BY DEF Row
    <2>2. [d \in 0..LastCol |-> IF d \in S THEN Blank ELSE x.cells[d]] \in [0..LastCol -> Cell]
      BY <2>1, BlankTyped
    <2>3. QED
      BY <2>2
  <1>2. x.links \in SideMap /\ x.marks \in SideMap
    BY DEF Row
  <1>3. PICK links \in SideMap : links = Without(x.links, S)
    BY <1>2, DroppingTyped
  <1>4. DOMAIN links = DOMAIN x.links \ S /\ \A d \in DOMAIN x.links \ S : links[d] = x.links[d]
    BY <1>3, Dropping
  <1>5. PICK marks \in SideMap : marks = Without(x.marks, S)
    BY <1>2, DroppingTyped
  <1>6. DOMAIN marks = DOMAIN x.marks \ S /\ \A d \in DOMAIN x.marks \ S : marks[d] = x.marks[d]
    BY <1>5, Dropping
  <1>7. PICK y : y = Cleared(x, S)
    OBVIOUS
  <1>8. y = [x EXCEPT !.cells = cells, !.links = links, !.marks = marks]
    BY <1>1, <1>3, <1>5, <1>7 DEF Cleared, PurgeSideMaps, Row
  <1>9. y \in Row /\ y.cells = cells /\ y.links = links /\ y.marks = marks /\ y.wrapped = x.wrapped
    BY <1>8 DEF Row
  <1>10. ASSUME NEW c \in 0..LastCol, c \notin S
         PROVE  y.cells[c] = x.cells[c] /\ Painted(y, c) = Painted(x, c) /\ FitAt(y, c) /\ LeadFits(y, c)
    <2>1. y.cells[c] = x.cells[c]
      BY <1>1, <1>9, <1>10
    <2>2. /\ c \in DOMAIN y.links <=> c \in DOMAIN x.links
          /\ c \in DOMAIN x.links => y.links[c] = x.links[c]
      BY <1>4, <1>9, <1>10
    <2>3. /\ c \in DOMAIN y.marks <=> c \in DOMAIN x.marks
          /\ c \in DOMAIN x.marks => y.marks[c] = x.marks[c]
      BY <1>6, <1>9, <1>10
    <2>4. QED
      BY <2>1, <2>2, <2>3, <1>9, ReadAlike DEF Fit
  <1>11. ASSUME NEW c \in 0..LastCol, c \in S
         PROVE  y.cells[c] = Blank /\ FitAt(y, c) /\ LeadFits(y, c)
    <2>1. y.cells[c] = Blank
      BY <1>1, <1>9, <1>11
    <2>2. QED
      BY <2>1, BlankTyped DEF FitAt, LeadFits
  <1>12. Fit(y)
    BY <1>10, <1>11 DEF Fit
  <1>13. QED
    BY <1>7, <1>9, <1>10, <1>11, <1>12

LEMMA OneFreed ==
  ASSUME NEW x \in Row, NEW c \in 0..LastCol
  PROVE  PurgeSideMaps([x EXCEPT !.cells[c] = Blank], {c}) = Cleared(x, {c})
  <1>1. [x EXCEPT !.cells[c] = Blank] = [x EXCEPT !.cells = [d \in 0..LastCol |-> IF d \in {c} THEN Blank ELSE x.cells[d]]]
    <2>1. [x.cells EXCEPT ![c] = Blank] = [d \in 0..LastCol |-> IF d \in {c} THEN Blank ELSE x.cells[d]]
      BY DEF Row
    <2>2. QED
      BY <2>1 DEF Row
  <1>2. QED
    BY <1>1 DEF Cleared

EntrySet(m, c, v) == IF v # 0 THEN Update(m, c, v) ELSE Without(m, {c})
LEMMA Entries ==
  ASSUME NEW m, NEW c, NEW v
  PROVE  /\ \A d : d # c => (d \in DOMAIN EntrySet(m, c, v) <=> d \in DOMAIN m)
         /\ \A d \in DOMAIN m : d # c => EntrySet(m, c, v)[d] = m[d]
         /\ v # 0 => c \in DOMAIN EntrySet(m, c, v) /\ EntrySet(m, c, v)[c] = v
  <1>1. CASE v # 0
    BY <1>1 DEF EntrySet, Update
  <1>2. CASE v = 0
    BY <1>2 DEF EntrySet, Without
  <1>3. QED
    BY <1>1, <1>2

PutInRow(x, c, cell, link) == SetExtAttrs([x EXCEPT !.cells[c] = cell], c, link)
FitBut(x, c) == \A d \in 0..LastCol : d # c => FitAt(x, d) /\ LeadFits(x, d)
\* The marks of the map are the cell's that comes.
MarksReady(x, c, cell) == /\ cell.marked => c \in DOMAIN x.marks /\ x.marks[c] = cell.ownMarks
                          /\ ~cell.marked => cell.ownMarks = 0

Owned(cell, link) == [cell EXCEPT !.linked = link # 0, !.own = link]
\* What set_ext_attrs writes.
WrittenAt(x, y, c, cell, link) ==
  /\ y \in Row /\ y.cells = [x.cells EXCEPT ![c] = Owned(cell, link)]
  /\ y.links = EntrySet(x.links, c, link) /\ y.marks = x.marks /\ y.wrapped = x.wrapped
  /\ Owned(cell, link) \in Cell
LEMMA PutShape ==
  ASSUME NEW x \in Row, NEW c \in 0..LastCol, NEW cell \in Cell, NEW link \in Nat,
         NEW y, y = PutInRow(x, c, cell, link)
  PROVE  WrittenAt(x, y, c, cell, link)
  <1>1. PICK b \in BOOLEAN : b <=> link # 0
    OBVIOUS
  <1>2. PICK z \in Cell : z = [cell EXCEPT !.linked = b, !.own = link]
    BY DEF Cell
  <1>3. z = Owned(cell, link)
    BY <1>1, <1>2 DEF Owned
  <1>4. x.cells \in [0..LastCol -> Cell] /\ x.links \in SideMap /\ x.marks \in SideMap
    BY DEF Row
  <1>5. PICK cells \in [0..LastCol -> Cell] : cells = [x.cells EXCEPT ![c] = z]
    BY <1>4
  <1>6. PICK links \in SideMap : links = EntrySet(x.links, c, link)
    <2>1. Update(x.links, c, link) \in SideMap /\ Without(x.links, {c}) \in SideMap
      BY <1>4, Sizes, UpdatedTyped, DroppingTyped
    <2>2. QED
      BY <2>1 DEF EntrySet
  <1>7. y = [x EXCEPT !.cells = cells, !.links = links]
    <2>1. [x EXCEPT !.cells[c] = cell].cells = [x.cells EXCEPT ![c] = cell]
      BY DEF Row
    <2>2. [x.cells EXCEPT ![c] = cell][c] = cell
      BY <1>4
    <2>3. (link # 0) = b
      BY <1>1
    <2>4. [[[x.cells EXCEPT ![c] = cell] EXCEPT ![c].linked = b] EXCEPT ![c].own = link] = cells
      BY <1>2, <1>4, <1>5, <2>2 DEF Cell
    <2>5. QED
      BY <1>6, <2>1, <2>2, <2>3, <2>4, <1>4 DEF PutInRow, SetExtAttrs, EntrySet, Row
  <1>8. y \in Row /\ y.cells = cells /\ y.links = links /\ y.marks = x.marks /\ y.wrapped = x.wrapped
    BY <1>7 DEF Row
  <1>9. QED
    BY <1>3, <1>5, <1>6, <1>8 DEF WrittenAt

\* set_ext_attrs on a cell that was just written, whose marks are as its bit says.
LEMMA RowPut ==
  ASSUME NEW x \in Row, NEW c \in 0..LastCol, NEW cell \in Cell, NEW link \in Nat,
         MarksReady(x, c, cell), ~cell.lead, FitBut(x, c),
         NEW y, y = PutInRow(x, c, cell, link)
  PROVE  /\ y \in Row
         /\ Fit(y)
         /\ y.wrapped = x.wrapped /\ y.cells[c].k = cell.k /\ ~y.cells[c].lead
         /\ LinkAt(y, c) = link
         /\ \A d \in 0..LastCol : d # c => y.cells[d] = x.cells[d] /\ Painted(y, d) = Painted(x, d)
  <1>1. c \in Int
    BY Sizes
  <1>2. PICK b \in BOOLEAN : b <=> link # 0
    OBVIOUS
  <1>3. PICK z \in Cell : z = Owned(cell, link)
    BY PutShape DEF WrittenAt
  <1>4. z.k = cell.k /\ z.lead = cell.lead /\ z.linked = b /\ z.own = link /\ z.marked = cell.marked /\ z.ownMarks = cell.ownMarks
    BY <1>2, <1>3 DEF Cell, Owned
  <1>5. x.cells \in [0..LastCol -> Cell]
    BY DEF Row
  <1>6. PICK cells : cells = [x.cells EXCEPT ![c] = z]
    OBVIOUS
  <1>7. PICK links : links = EntrySet(x.links, c, link)
    OBVIOUS
  <1>8. /\ \A d : d # c => (d \in DOMAIN links <=> d \in DOMAIN x.links)
        /\ \A d \in DOMAIN x.links : d # c => links[d] = x.links[d]
        /\ link # 0 => c \in DOMAIN links /\ links[c] = link
    BY <1>7, Entries
  <1>9. y \in Row /\ y.cells = cells /\ y.links = links /\ y.marks = x.marks /\ y.wrapped = x.wrapped
    BY <1>3, <1>6, <1>7, PutShape DEF WrittenAt
  <1>10. ASSUME NEW d \in 0..LastCol, d # c
         PROVE  y.cells[d] = x.cells[d] /\ Painted(y, d) = Painted(x, d) /\ FitAt(y, d) /\ LeadFits(y, d)
    <2>1. y.cells[d] = x.cells[d]
      BY <1>6, <1>9, <1>10, <1>5
    <2>2. /\ d \in DOMAIN y.links <=> d \in DOMAIN x.links
          /\ d \in DOMAIN x.links => y.links[d] = x.links[d]
      BY <1>8, <1>9, <1>10, Sizes
    <2>3. QED
      BY <2>1, <2>2, <1>9, <1>10, ReadAlike DEF FitBut
  <1>11. y.cells[c] = z
    BY <1>6, <1>9, <1>5
  <1>12. link # 0 => c \in DOMAIN y.links /\ y.links[c] = link
    BY <1>8, <1>9
  <1>13. FitAt(y, c) /\ LeadFits(y, c) /\ LinkAt(y, c) = link
    BY <1>2, <1>4, <1>9, <1>11, <1>12 DEF MarksReady, FitAt, LeadFits, LinkAt
  <1>14. QED
    BY <1>4, <1>9, <1>10, <1>11, <1>13 DEF Fit

\* The cells of two rows are alike but for those of S.
Beyond(x, y, S) == \A c \in 0..LastCol : c \notin S => /\ y.cells[c].k = x.cells[c].k /\ y.cells[c].lead = x.cells[c].lead
                                                      /\ Painted(y, c) = Painted(x, c)

LEMMA RowMarked ==
  ASSUME NEW x \in Row, Fit(x), NEW c \in 0..LastCol, NEW y, y = PushMark(x, c)
  PROVE  /\ y \in Row /\ Fit(y) /\ y.wrapped = x.wrapped
         /\ Beyond(x, y, {c})
         /\ y.cells[c].k = x.cells[c].k /\ y.cells[c].lead = x.cells[c].lead
         /\ LinkAt(y, c) = LinkAt(x, c)
  <1>1. x.cells \in [0..LastCol -> Cell] /\ x.marks \in SideMap /\ x.cells[c] \in Cell /\ x.cells[c].ownMarks \in Nat /\ c \in Int
    BY Sizes DEF Row, Cell
  <1>2. PICK n \in Nat : n = IF x.cells[c].marked THEN Least(x.cells[c].ownMarks + 1, ClusterTail) ELSE 1
    <2>1. Least(x.cells[c].ownMarks + 1, ClusterTail) \in Nat
      BY <1>1, RowAssumption DEF Least
    <2>2. QED
      BY <2>1
  <1>3. PICK z \in Cell : z = [x.cells[c] EXCEPT !.marked = TRUE, !.ownMarks = n]
    BY <1>1 DEF Cell
  <1>4. /\ z.k = x.cells[c].k /\ z.lead = x.cells[c].lead /\ z.linked = x.cells[c].linked /\ z.own = x.cells[c].own
        /\ z.marked /\ z.ownMarks = n
    BY <1>1, <1>3 DEF Cell
  <1>5. PICK cells \in [0..LastCol -> Cell] : cells = [x.cells EXCEPT ![c] = z]
    BY <1>1
  <1>6. PICK marks \in SideMap : marks = Update(x.marks, c, n)
    BY <1>1, UpdatedTyped
  <1>7. y = [x EXCEPT !.cells = cells, !.marks = marks]
    <2>1. CASE x.cells[c].marked
      <3>1. MarksAt(x, c) = x.cells[c].ownMarks
        BY <2>1 DEF Fit, FitAt, MarksAt
      <3>2. Least(MarksAt(x, c) + 1, ClusterTail) = n /\ Least(x.cells[c].ownMarks + 1, ClusterTail) = n
        BY <2>1, <1>2, <3>1
      <3>3. z = [x.cells[c] EXCEPT !.ownMarks = n]
        BY <2>1, <1>1, <1>3 DEF Cell
      <3>4. y = [x EXCEPT !.marks = Update(@, c, n), !.cells[c].ownMarks = n]
        BY <2>1, <3>2 DEF PushMark, Row
      <3>5. QED
        BY <3>3, <3>4, <1>5, <1>6, <1>1 DEF Row
    <2>2. CASE ~x.cells[c].marked
      <3>1. n = 1
        BY <2>2, <1>2
      <3>2. y = [x EXCEPT !.cells[c].marked = TRUE, !.cells[c].ownMarks = 1, !.marks = Update(@, c, 1)]
        BY <2>2 DEF PushMark
      <3>3. PICK z1 \in Cell : z1 = [x.cells[c] EXCEPT !.marked = TRUE]
        BY <1>1 DEF Cell
      <3>4. PICK cells1 \in [0..LastCol -> Cell] : cells1 = [x.cells EXCEPT ![c] = z1]
        BY <1>1
      <3>5. PICK x1 \in Row : x1 = [x EXCEPT !.cells = cells1]
        BY DEF Row
      <3>6. x1 = [x EXCEPT !.cells[c].marked = TRUE] /\ x1.cells = cells1 /\ x1.cells[c] = z1 /\ x1.marks = x.marks
            /\ x1.links = x.links /\ x1.wrapped = x.wrapped
        BY <3>3, <3>4, <3>5, <1>1 DEF Row
      <3>7. z = [z1 EXCEPT !.ownMarks = 1]
        BY <3>1, <3>3, <1>1, <1>3 DEF Cell
      <3>8. cells = [cells1 EXCEPT ![c] = z]
        BY <3>4, <1>5, <1>1
      <3>9. y = [x1 EXCEPT !.cells[c].ownMarks = 1, !.marks = Update(@, c, 1)]
        BY <3>2, <3>6
      <3>10. y = [x1 EXCEPT !.cells = cells, !.marks = marks]
        BY <3>1, <3>6, <3>7, <3>8, <3>9, <1>6 DEF Row
      <3>11. QED
        BY <3>5, <3>10 DEF Row
    <2>3. QED
      BY <2>1, <2>2
  <1>8. y \in Row /\ y.cells = cells /\ y.links = x.links /\ y.marks = marks /\ y.wrapped = x.wrapped
    BY <1>7 DEF Row
  <1>9. /\ \A d : d # c => (d \in DOMAIN marks <=> d \in DOMAIN x.marks)
        /\ \A d \in DOMAIN x.marks : d # c => marks[d] = x.marks[d]
        /\ c \in DOMAIN marks /\ marks[c] = n
    BY <1>6, Updated
  <1>10. ASSUME NEW d \in 0..LastCol, d # c
         PROVE  y.cells[d] = x.cells[d] /\ Painted(y, d) = Painted(x, d) /\ FitAt(y, d) /\ LeadFits(y, d)
    <2>1. y.cells[d] = x.cells[d]
      BY <1>5, <1>8, <1>10, <1>1
    <2>2. QED
      BY <2>1, <1>8, <1>9, <1>10, ReadAlike DEF Fit
  <1>11. y.cells[c] = z
    BY <1>5, <1>8, <1>1
  <1>12. FitAt(y, c) /\ LeadFits(y, c) /\ LinkAt(y, c) = LinkAt(x, c)
    BY <1>4, <1>8, <1>9, <1>11 DEF Fit, FitAt, LeadFits, LinkAt
  <1>13. QED
    BY <1>4, <1>8, <1>10, <1>11, <1>12 DEF Fit, Beyond

\* begin_wrap and end_wrap.
Wraps(x) == [x EXCEPT !.wrapped = TRUE]
LEMMA RowWraps ==
  ASSUME NEW x \in Row, Fit(x), NEW y, y = Wraps(x)
  PROVE  y \in Row /\ Fit(y) /\ y.cells = x.cells /\ y.wrapped /\ Beyond(x, y, {LastCol})
  <1>1. y \in Row /\ y.cells = x.cells /\ y.links = x.links /\ y.marks = x.marks /\ y.wrapped
    BY DEF Row, Wraps
  <1>2. Fit(y)
    BY <1>1 DEF Fit, FitAt, LeadFits
  <1>3. ASSUME NEW c \in 0..LastCol, c # LastCol
        PROVE  Painted(y, c) = Painted(x, c)
    <2>1. LinkAt(y, c) = LinkAt(x, c) /\ MarksAt(y, c) = MarksAt(x, c)
      BY <1>1 DEF LinkAt, MarksAt
    <2>2. QED
      BY <1>1, <1>3, <2>1, PaintedAlike
  <1>4. QED
    BY <1>1, <1>2, <1>3 DEF Beyond

\* clear_leading_spacer: nothing a frame shows.
Unled(x) == [x EXCEPT !.cells[LastCol].lead = FALSE]
LEMMA RowUnled ==
  ASSUME NEW x \in Row, Fit(x), NEW y, y = Unled(x)
  PROVE  /\ y \in Row /\ Fit(y) /\ y.wrapped = x.wrapped
         /\ \A c \in 0..LastCol : /\ y.cells[c].k = x.cells[c].k /\ ~y.cells[LastCol].lead
                                  /\ y.cells[c].lead => x.cells[c].lead
                                  /\ Painted(y, c) = Painted(x, c)
  <1>1. x.cells \in [0..LastCol -> Cell] /\ x.cells[LastCol] \in Cell /\ LastCol \in 0..LastCol
    BY Sizes DEF Row
  <1>2. PICK z \in Cell : z = [x.cells[LastCol] EXCEPT !.lead = FALSE]
    BY <1>1 DEF Cell
  <1>3. PICK cells \in [0..LastCol -> Cell] : cells = [x.cells EXCEPT ![LastCol] = z]
    BY <1>1
  <1>4. y = [x EXCEPT !.cells = cells]
    BY <1>1, <1>2, <1>3 DEF Unled, Row
  <1>5. y \in Row /\ y.cells = cells /\ y.links = x.links /\ y.marks = x.marks /\ y.wrapped = x.wrapped
    BY <1>4 DEF Row
  <1>6. ASSUME NEW c \in 0..LastCol
        PROVE  /\ y.cells[c].k = x.cells[c].k /\ y.cells[c].linked = x.cells[c].linked /\ y.cells[c].own = x.cells[c].own
               /\ y.cells[c].marked = x.cells[c].marked /\ y.cells[c].ownMarks = x.cells[c].ownMarks
               /\ y.cells[c].lead => x.cells[c].lead
    <2>1. CASE c = LastCol
      BY <2>1, <1>1, <1>2, <1>3, <1>5 DEF Cell
    <2>2. CASE c # LastCol
      BY <2>2, <1>1, <1>3, <1>5
    <2>3. QED
      BY <2>1, <2>2
  <1>7. ~y.cells[LastCol].lead
    BY <1>1, <1>2, <1>3, <1>5 DEF Cell
  <1>8. ASSUME NEW c \in 0..LastCol
        PROVE  Painted(y, c) = Painted(x, c) /\ FitAt(y, c) /\ LeadFits(y, c)
    <2>1. LinkAt(y, c) = LinkAt(x, c) /\ MarksAt(y, c) = MarksAt(x, c)
      BY <1>5, <1>6 DEF LinkAt, MarksAt
    <2>2. FitAt(x, c) /\ LeadFits(x, c)
      BY DEF Fit
    <2>3. QED
      BY <2>1, <2>2, <1>5, <1>6, PaintedAlike DEF FitAt, LeadFits
  <1>9. QED
    BY <1>5, <1>6, <1>7, <1>8 DEF Fit

\* move_map: an entry goes with its column, and one of a column that neither moves nor is
\* moved onto stays.
LEMMA CellsMoved ==
  ASSUME NEW m, NEW src \in SUBSET Int, NEW shift \in Int, NEW c \in Int
  PROVE  /\ c - shift \in src /\ c - shift \in DOMAIN m
              => c \in DOMAIN MoveMap(m, src, shift) /\ MoveMap(m, src, shift)[c] = m[c - shift]
         /\ c \notin src /\ c - shift \notin src => (c \in DOMAIN MoveMap(m, src, shift) <=> c \in DOMAIN m)
         /\ c \notin src /\ c - shift \notin src /\ c \in DOMAIN m => MoveMap(m, src, shift)[c] = m[c]
  <1> DEFINE moved == {x \in src : x \in DOMAIN m}
             dom == (DOMAIN m \ moved) \cup {x + shift : x \in moved}
  <1>1. MoveMap(m, src, shift) = [d \in dom |-> IF d - shift \in moved THEN m[d - shift] ELSE m[d]]
    BY DEF MoveMap
  <1>2. DOMAIN MoveMap(m, src, shift) = dom
    BY <1>1
  <1>3. ASSUME c - shift \in src, c - shift \in DOMAIN m
        PROVE  c \in dom /\ c - shift \in moved
    <2>1. c - shift \in moved
      BY <1>3
    <2>2. PICK x \in moved : x = c - shift
      BY <2>1
    <2>3. c = x + shift
      BY <2>2
    <2>4. QED
      BY <2>1, <2>3
  <1>4. ASSUME c \notin src, c - shift \notin src
        PROVE  c \in dom <=> c \in DOMAIN m
    <2>1. ASSUME NEW x \in moved
          PROVE  c # x + shift
      <3>1. x \in Int /\ x \in src
        OBVIOUS
      <3>2. x # c - shift
        BY <1>4, <3>1
      <3>3. QED
        BY <3>1, <3>2
    <2>2. QED
      BY <2>1, <1>4
  <1>5. c - shift \notin src => c - shift \notin moved
    OBVIOUS
  <1> HIDE DEF moved, dom
  <1>6. QED
    BY <1>1, <1>2, <1>3, <1>4, <1>5

LEMMA MovedTyped ==
  ASSUME NEW m \in SideMap, NEW src \in SUBSET Int, NEW shift \in Int
  PROVE  MoveMap(m, src, shift) \in SideMap
  <1>1. PICK D \in SUBSET Int : m \in [D -> Nat]
    BY DEF SideMap
  <1> DEFINE moved == {x \in src : x \in DOMAIN m}
             dom == (DOMAIN m \ moved) \cup {x + shift : x \in moved}
  <1>2. MoveMap(m, src, shift) = [d \in dom |-> IF d - shift \in moved THEN m[d - shift] ELSE m[d]]
    BY DEF MoveMap
  <1>3. dom \in SUBSET Int
    <2>1. \A x \in moved : x + shift \in Int
      OBVIOUS
    <2>2. QED
      BY <1>1, <2>1
  <1>4. ASSUME NEW d \in dom
        PROVE  (IF d - shift \in moved THEN m[d - shift] ELSE m[d]) \in Nat
    <2>1. CASE d - shift \in moved
      BY <2>1, <1>1
    <2>2. CASE d - shift \notin moved
      <3>1. ASSUME NEW x \in moved
            PROVE  d # x + shift
        <4>1. x \in Int /\ d \in Int
          BY <1>3
        <4>2. x # d - shift
          BY <2>2
        <4>3. QED
          BY <4>1, <4>2
      <3>2. d \in DOMAIN m
        BY <3>1
      <3>3. QED
        BY <2>2, <3>2, <1>1
    <2>3. QED
      BY <2>1, <2>2
  <1> HIDE DEF moved, dom
  <1>5. [d \in dom |-> IF d - shift \in moved THEN m[d - shift] ELSE m[d]] \in [dom -> Nat]
    BY <1>4
  <1>6. QED
    BY <1>2, <1>3, <1>5 DEF SideMap

\* Every column that moves is moved onto or exposed, and no vacated column moves.
Shifts(x, src, shift, exposed) ==
  /\ src \in SUBSET (0..LastCol) /\ shift \in Int
  /\ \A c \in src : c \in exposed \/ c - shift \in src
  /\ \A c \in src : ~x.cells[c].lead

LEMMA RowShifted ==
  ASSUME NEW x \in Row, Fit(x), NEW src, NEW shift, NEW exposed, Shifts(x, src, shift, exposed),
         NEW y, y = Shifted(x, src, shift, exposed)
  PROVE  /\ y \in Row /\ Fit(y) /\ y.wrapped = x.wrapped
         /\ \A c \in 0..LastCol : c \in exposed => y.cells[c] = Blank
         /\ \A c \in 0..LastCol : c \notin exposed /\ c - shift \in src => y.cells[c] = x.cells[c - shift]
         /\ \A c \in 0..LastCol : c \notin exposed /\ c - shift \notin src
              => y.cells[c] = x.cells[c] /\ Painted(y, c) = Painted(x, c)
  <1>1. src \in SUBSET (0..LastCol) /\ shift \in Int
    BY DEF Shifts
  <1>2. src \in SUBSET Int /\ \A c \in 0..LastCol : c \in Int
    BY <1>1, Sizes
  <1>3. x.cells \in [0..LastCol -> Cell] /\ x.links \in SideMap /\ x.marks \in SideMap
    BY DEF Row
  <1>4. PICK cells \in [0..LastCol -> Cell] :
          cells = [c \in 0..LastCol |-> IF c \in exposed THEN Blank
                                        ELSE IF c - shift \in src THEN x.cells[c - shift] ELSE x.cells[c]]
    <2>1. \A c \in 0..LastCol : (IF c \in exposed THEN Blank
                                 ELSE IF c - shift \in src THEN x.cells[c - shift] ELSE x.cells[c]) \in Cell
      BY <1>1, <1>3, BlankTyped
    <2>2. [c \in 0..LastCol |-> IF c \in exposed THEN Blank
                                ELSE IF c - shift \in src THEN x.cells[c - shift] ELSE x.cells[c]] \in [0..LastCol -> Cell]
      BY <2>1
    <2>3. QED
      BY <2>2
  <1>5. PICK links \in SideMap : links = MoveMap(x.links, src, shift)
    BY <1>1, <1>2, <1>3, MovedTyped
  <1>6. PICK marks \in SideMap : marks = MoveMap(x.marks, src, shift)
    BY <1>1, <1>2, <1>3, MovedTyped
  <1>7. y = [x EXCEPT !.cells = cells, !.links = links, !.marks = marks]
    BY <1>4, <1>5, <1>6 DEF Shifted, Row
  <1>8. y \in Row /\ y.cells = cells /\ y.links = links /\ y.marks = marks /\ y.wrapped = x.wrapped
    BY <1>7 DEF Row
  <1>9. ASSUME NEW c \in 0..LastCol, c \in exposed
        PROVE  y.cells[c] = Blank /\ FitAt(y, c) /\ LeadFits(y, c)
    <2>1. y.cells[c] = Blank
      BY <1>4, <1>8, <1>9
    <2>2. QED
      BY <2>1, BlankTyped DEF FitAt, LeadFits
  <1>10. ASSUME NEW c \in 0..LastCol, c \notin exposed, c - shift \in src
         PROVE  y.cells[c] = x.cells[c - shift] /\ FitAt(y, c) /\ LeadFits(y, c)
    <2>1. y.cells[c] = x.cells[c - shift]
      BY <1>4, <1>8, <1>10
    <2>2. c - shift \in 0..LastCol /\ ~x.cells[c - shift].lead
      BY <1>1, <1>10 DEF Shifts
    <2>3. FitAt(x, c - shift)
      BY <2>2 DEF Fit
    <2>4. c - shift \in DOMAIN x.links => c \in DOMAIN y.links /\ y.links[c] = x.links[c - shift]
      BY <1>1, <1>2, <1>5, <1>8, <1>10, CellsMoved
    <2>5. c - shift \in DOMAIN x.marks => c \in DOMAIN y.marks /\ y.marks[c] = x.marks[c - shift]
      BY <1>1, <1>2, <1>6, <1>8, <1>10, CellsMoved
    <2>6. QED
      BY <2>1, <2>2, <2>3, <2>4, <2>5 DEF FitAt, LeadFits
  <1>11. ASSUME NEW c \in 0..LastCol, c \notin exposed, c - shift \notin src
         PROVE  y.cells[c] = x.cells[c] /\ Painted(y, c) = Painted(x, c) /\ FitAt(y, c) /\ LeadFits(y, c)
    <2>1. y.cells[c] = x.cells[c]
      BY <1>4, <1>8, <1>11
    <2>2. c \notin src
      BY <1>11 DEF Shifts
    <2>3. (c \in DOMAIN y.links <=> c \in DOMAIN x.links) /\ (c \in DOMAIN x.links => y.links[c] = x.links[c])
      BY <1>1, <1>2, <1>5, <1>8, <1>11, <2>2, CellsMoved
    <2>4. (c \in DOMAIN y.marks <=> c \in DOMAIN x.marks) /\ (c \in DOMAIN x.marks => y.marks[c] = x.marks[c])
      BY <1>1, <1>2, <1>6, <1>8, <1>11, <2>2, CellsMoved
    <2>5. QED
      BY <1>8, <2>1, <2>3, <2>4, ReadAlike DEF Fit
  <1>12. Fit(y)
    BY <1>9, <1>10, <1>11 DEF Fit
  <1>13. QED
    BY <1>8, <1>9, <1>10, <1>11, <1>12

\* A glyph that becomes wide, or a wide one that becomes narrow.
Rewidened(x, c, k) == [x EXCEPT !.cells[c].k = k]
Inked(x, c) == x.cells[c].k # "blank"
Reads(y, c, k) == y.cells[c].k = k /\ ~y.cells[c].lead
LEMMA RowRewidened ==
  ASSUME NEW x \in Row, Fit(x), NEW c \in 0..LastCol, NEW k \in Kinds, Inked(x, c),
         NEW y, y = Rewidened(x, c, k)
  PROVE  /\ y \in Row /\ Fit(y) /\ y.wrapped = x.wrapped
         /\ Beyond(x, y, {c})
         /\ Reads(y, c, k)
  <1>1. x.cells \in [0..LastCol -> Cell] /\ x.cells[c] \in Cell
    BY DEF Row
  <1>2. PICK z \in Cell : z = [x.cells[c] EXCEPT !.k = k]
    BY <1>1 DEF Cell
  <1>3. /\ z.k = k /\ z.lead = x.cells[c].lead /\ z.linked = x.cells[c].linked /\ z.own = x.cells[c].own
        /\ z.marked = x.cells[c].marked /\ z.ownMarks = x.cells[c].ownMarks
    BY <1>1, <1>2 DEF Cell
  <1>4. PICK cells \in [0..LastCol -> Cell] : cells = [x.cells EXCEPT ![c] = z]
    BY <1>1
  <1>5. y = [x EXCEPT !.cells = cells]
    BY <1>1, <1>2, <1>4 DEF Rewidened, Row
  <1>6. y \in Row /\ y.cells = cells /\ y.links = x.links /\ y.marks = x.marks /\ y.wrapped = x.wrapped
    BY <1>5 DEF Row
  <1>7. ~x.cells[c].lead
    BY DEF Fit, LeadFits, Inked
  <1>8. y.cells[c] = z
    BY <1>1, <1>4, <1>6
  <1>9. FitAt(y, c) /\ LeadFits(y, c)
    BY <1>3, <1>6, <1>7, <1>8 DEF Fit, FitAt, LeadFits
  <1>10. ASSUME NEW d \in 0..LastCol, d # c
         PROVE  y.cells[d] = x.cells[d] /\ Painted(y, d) = Painted(x, d) /\ FitAt(y, d) /\ LeadFits(y, d)
    <2>1. y.cells[d] = x.cells[d]
      BY <1>1, <1>4, <1>6, <1>10
    <2>2. QED
      BY <2>1, <1>6, ReadAlike DEF Fit
  <1>11. Fit(y)
    BY <1>9, <1>10 DEF Fit
  <1>12. Beyond(x, y, {c})
    BY <1>10 DEF Beyond
  <1>13. QED
    BY <1>3, <1>6, <1>7, <1>8, <1>11, <1>12 DEF Reads

\* blank_in_place, and a new row.
LEMMA RowsOfBlanks ==
  /\ BlankRow \in Row /\ Fit(BlankRow) /\ ~BlankRow.wrapped /\ \A c \in 0..LastCol : BlankRow.cells[c] = Blank
  /\ \A x \in Row : /\ BlankInPlace(x) \in Row /\ Fit(BlankInPlace(x)) /\ ~BlankInPlace(x).wrapped
                    /\ \A c \in 0..LastCol : BlankInPlace(x).cells[c] = Blank
  <1>1. [c \in 0..LastCol |-> Blank] \in [0..LastCol -> Cell]
    BY BlankTyped
  <1>2. PICK blanks \in [0..LastCol -> Cell] : blanks = [c \in 0..LastCol |-> Blank]
    BY <1>1
  <1>3. ASSUME NEW y \in Row, \A c \in 0..LastCol : y.cells[c] = Blank
        PROVE  Fit(y)
    BY <1>3, BlankTyped DEF Fit, FitAt, LeadFits
  <1>4. BlankRow \in Row /\ ~BlankRow.wrapped /\ \A c \in 0..LastCol : BlankRow.cells[c] = Blank
    BY <1>1, NoEntries DEF BlankRow, Row
  <1>5. ASSUME NEW x \in Row
        PROVE  /\ BlankInPlace(x) \in Row /\ ~BlankInPlace(x).wrapped
               /\ \A c \in 0..LastCol : BlankInPlace(x).cells[c] = Blank
    <2>1. BlankInPlace(x) = [x EXCEPT !.cells = blanks, !.wrapped = FALSE]
      BY <1>2 DEF BlankInPlace
    <2>2. PICK y \in Row : y = BlankInPlace(x)
      BY <2>1, <1>2 DEF Row
    <2>3. y.cells = blanks /\ ~y.wrapped
      BY <2>1, <2>2 DEF Row
    <2>4. QED
      BY <2>2, <2>3, <1>2
  <1>6. QED
    BY <1>3, <1>4, <1>5

----------------------------------------------------------------------------
(* States. *)
KindAt(s, r, c) == s.rows[r].cells[c].k
Vacant(s, r) == s.rows[r].cells[LastCol].lead

\* What an edit of cells leaves alone.
Control(u, s) ==
  /\ u.row = s.row /\ u.col = s.col /\ u.park = s.park /\ u.top = s.top /\ u.bottom = s.bottom /\ u.pen = s.pen
  /\ u.autowrap = s.autowrap /\ u.insert = s.insert /\ u.cluster = s.cluster /\ u.reverse = s.reverse
  /\ u.saved = s.saved /\ u.returned = s.returned

\* The consumer holds what is not damaged, but for the columns S of row r.
Told(s, r, S) == \A q \in 0..LastRow, c \in 0..LastCol :
                   \/ <<q, c>> \in s.dmg
                   \/ s.view[q][c] = Painted(s.rows[q], c)
                   \/ q = r /\ c \in S
Local(s, r, S) == s \in State /\ (\A q \in 0..LastRow : Fit(s.rows[q])) /\ Told(s, r, S)

\* Only the columns S of row r have another kind, and no more columns are vacant.
Edits(u, s, r, S) ==
  /\ Control(u, s)
  /\ \A q \in 0..LastRow : Vacant(u, q) => Vacant(s, q)
  /\ \A q \in 0..LastRow, c \in 0..LastCol : q # r \/ c \notin S => KindAt(u, q, c) = KindAt(s, q, c)

LEMMA ControlTrans == ASSUME NEW s, NEW u, NEW v, Control(u, s), Control(v, u) PROVE Control(v, s)
  BY DEF Control

LEMMA EditsTrans ==
  ASSUME NEW s, NEW u, NEW v, NEW r, NEW S, NEW T, Edits(u, s, r, S), Edits(v, u, r, T)
  PROVE  Edits(v, s, r, S \cup T)
  BY ControlTrans DEF Edits

LEMMA EditsWithin ==
  ASSUME NEW s, NEW u, NEW r, NEW S, NEW T, Edits(u, s, r, S), S \cap (0..LastCol) \subseteq T
  PROVE  Edits(u, s, r, T)
  BY DEF Edits

LEMMA EditsNothing == ASSUME NEW s, NEW r, NEW S PROVE Edits(s, s, r, S)
  BY DEF Edits, Control

LEMMA EditsElsewhere == ASSUME NEW s, NEW u, NEW r, NEW q, Edits(u, s, r, {}) PROVE Edits(u, s, q, {})
  BY DEF Edits

LEMMA LocalElsewhere == ASSUME NEW s, NEW r, NEW q, Local(s, r, {}) PROVE Local(s, q, {})
  BY DEF Local, Told

LEMMA LocalWithin ==
  ASSUME NEW s, NEW r, NEW S, NEW T, Local(s, r, S), S \cap (0..LastCol) \subseteq T
  PROVE  Local(s, r, T)
  BY DEF Local, Told

Written(s, r, row) == [s EXCEPT !.rows[r] = row]
\* Two rows are of the same kinds and paint the same, but for the columns S.
Alike(x, y, S) == \A c \in 0..LastCol : c \notin S => y.cells[c].k = x.cells[c].k /\ Painted(y, c) = Painted(x, c)

\* Row r of u is row, and the others are as they were.
RowIs(u, s, r, row) == u.rows[r] = row /\ \A q \in 0..LastRow : q # r => u.rows[q] = s.rows[q]

LEMMA RowWritten ==
  ASSUME NEW s, NEW r \in 0..LastRow, NEW S, Local(s, r, S), NEW T,
         NEW row \in Row, Fit(row), Alike(s.rows[r], row, T),
         NEW u, u = Written(s, r, row)
  PROVE  /\ Local(u, r, S \cup T)
         /\ Control(u, s)
         /\ RowIs(u, s, r, row)
  <1>1. s \in State /\ s.rows \in [0..LastRow -> Row]
    BY DEF Local, State
  <1>2. PICK rows \in [0..LastRow -> Row] : rows = [s.rows EXCEPT ![r] = row]
    BY <1>1
  <1>3. u = [s EXCEPT !.rows = rows]
    BY <1>1, <1>2 DEF Written, State
  <1>4. u \in State
    BY <1>1, <1>3 DEF State
  <1>5. u.rows = rows /\ Control(u, s) /\ u.view = s.view /\ u.dmg = s.dmg /\ u.back = s.back
    BY <1>1, <1>3 DEF State, Control
  <1>6. rows[r] = row /\ \A q \in 0..LastRow : q # r => rows[q] = s.rows[q]
    BY <1>1, <1>2
  <1>7. \A q \in 0..LastRow : Fit(u.rows[q])
    BY <1>5, <1>6 DEF Local
  <1>8. ASSUME NEW q \in 0..LastRow, NEW c \in 0..LastCol
        PROVE  <<q, c>> \in u.dmg \/ u.view[q][c] = Painted(u.rows[q], c) \/ (q = r /\ c \in S \cup T)
    <2>1. <<q, c>> \in s.dmg \/ s.view[q][c] = Painted(s.rows[q], c) \/ (q = r /\ c \in S)
      BY DEF Local, Told
    <2>2. CASE q = r
      BY <2>1, <2>2, <1>5, <1>6 DEF Alike
    <2>3. CASE q # r
      BY <2>1, <2>3, <1>5, <1>6
    <2>4. QED
      BY <2>2, <2>3
  <1>9. Told(u, r, S \cup T)
    BY <1>8 DEF Told
  <1>10. QED
    BY <1>4, <1>5, <1>6, <1>7, <1>9 DEF Local, RowIs

\* damage_span.
LEMMA Damaged ==
  ASSUME NEW s, NEW r \in 0..LastRow, NEW S, Local(s, r, S), NEW a \in 0..LastCol, NEW b \in 0..LastCol, NEW u, u = DamageSpan(s, r, a, b)
  PROVE  /\ Local(u, r, S \ (a..b))
         /\ Control(u, s) /\ u.rows = s.rows /\ u.back = s.back /\ u.view = s.view
  <1>1. s \in State /\ s.dmg \in SUBSET ((0..LastRow) \X (0..LastCol))
    BY DEF Local, State
  <1>2. {<<r, c>> : c \in a..b} \in SUBSET ((0..LastRow) \X (0..LastCol))
    BY Sizes
  <1>3. PICK dmg \in SUBSET ((0..LastRow) \X (0..LastCol)) : dmg = s.dmg \cup {<<r, c>> : c \in a..b}
    BY <1>1, <1>2
  <1>4. u = [s EXCEPT !.dmg = dmg]
    BY <1>1, <1>3 DEF DamageSpan
  <1>5. u \in State /\ u.dmg = dmg /\ Control(u, s) /\ u.rows = s.rows /\ u.back = s.back /\ u.view = s.view
    <2>1. u \in State
      BY <1>1, <1>4 DEF State
    <2>2. QED
      BY <1>1, <1>4, <2>1 DEF State, Control
  <1>6. ASSUME NEW q \in 0..LastRow, NEW c \in 0..LastCol
        PROVE  <<q, c>> \in u.dmg \/ u.view[q][c] = Painted(u.rows[q], c) \/ (q = r /\ c \in S \ (a..b))
    <2>1. <<q, c>> \in s.dmg \/ s.view[q][c] = Painted(s.rows[q], c) \/ (q = r /\ c \in S)
      BY DEF Local, Told
    <2>2. q = r /\ c \in a..b => <<q, c>> \in dmg
      BY <1>3
    <2>3. <<q, c>> \in s.dmg => <<q, c>> \in dmg
      BY <1>3
    <2>4. QED
      BY <2>1, <2>2, <2>3, <1>5
  <1>7. Told(u, r, S \ (a..b))
    BY <1>6 DEF Told
  <1>8. QED
    BY <1>5, <1>7 DEF Local

----------------------------------------------------------------------------
(* The primitives. *)
LEMMA RowEdited ==
  ASSUME NEW s, NEW r \in 0..LastRow, NEW S, Local(s, r, S), NEW T, NEW row \in Row, Fit(row), Alike(s.rows[r], row, T),
         row.cells[LastCol].lead => s.rows[r].cells[LastCol].lead,
         NEW u, u = Written(s, r, row)
  PROVE  /\ Local(u, r, S \cup T)
         /\ Edits(u, s, r, T)
         /\ RowIs(u, s, r, row)
  <1>1. Local(u, r, S \cup T) /\ Control(u, s) /\ RowIs(u, s, r, row)
    BY RowWritten
  <1>2. \A q \in 0..LastRow : Vacant(u, q) => Vacant(s, q)
    BY <1>1 DEF RowIs, Vacant
  <1>3. \A q \in 0..LastRow, c \in 0..LastCol : q # r \/ c \notin T => KindAt(u, q, c) = KindAt(s, q, c)
    BY <1>1 DEF RowIs, KindAt, Alike
  <1>4. QED
    BY <1>1, <1>2, <1>3 DEF Edits

\* damage_span changes no cell.
LEMMA DamagedEdits ==
  ASSUME NEW s, NEW r \in 0..LastRow, NEW S, Local(s, r, S), NEW a \in 0..LastCol, NEW b \in 0..LastCol, NEW u, u = DamageSpan(s, r, a, b)
  PROVE  Local(u, r, S \ (a..b)) /\ Edits(u, s, r, {}) /\ u.rows = s.rows
  BY Damaged DEF Edits, Vacant, KindAt

\* free_cell.
LEMMA Freed ==
  ASSUME NEW s, NEW r \in 0..LastRow, NEW S, Local(s, r, S), NEW c \in 0..LastCol, NEW u, u = FreeCell(s, r, c)
  PROVE  /\ Local(u, r, S) /\ Edits(u, s, r, {c})
         /\ KindAt(u, r, c) = "blank"
         /\ c = LastCol => ~Vacant(u, r)
  <1>1. s.rows[r] \in Row /\ Fit(s.rows[r]) /\ s \in State /\ s.rows \in [0..LastRow -> Row]
    BY DEF Local, State
  <1>2. PICK row : row = Cleared(s.rows[r], {c})
    OBVIOUS
  <1>3. /\ row \in Row /\ Fit(row) /\ row.cells[c] = Blank
        /\ \A d \in 0..LastCol : d # c => row.cells[d] = s.rows[r].cells[d] /\ Painted(row, d) = Painted(s.rows[r], d)
    <2>1. PICK T : T = {c}
      OBVIOUS
    <2>2. row = Cleared(s.rows[r], T)
      BY <1>2, <2>1
    <2>3. QED
      BY <1>1, <2>1, <2>2, RowCleared
  <1>4. PICK v : v = Written(s, r, row)
    OBVIOUS
  <1>5. v = [s EXCEPT !.rows[r] = PurgeSideMaps([@ EXCEPT !.cells[c] = Blank], {c})]
    BY <1>1, <1>2, <1>4, OneFreed DEF Written
  <1>6. u = DamageSpan(v, r, c, c)
    BY <1>5 DEF FreeCell
  <1>7. row.cells[LastCol].lead => s.rows[r].cells[LastCol].lead
    BY <1>3, BlankTyped, Sizes
  <1>8. /\ Local(v, r, S \cup {c}) /\ Edits(v, s, r, {c}) /\ RowIs(v, s, r, row)
    <2>1. Alike(s.rows[r], row, {c})
      BY <1>3 DEF Alike
    <2>2. QED
      BY <2>1, <1>1, <1>3, <1>4, <1>7, RowEdited
  <1>9. c \in Int
    BY Sizes
  <1>10. Local(u, r, (S \cup {c}) \ (c..c)) /\ Edits(u, v, r, {}) /\ u.rows = v.rows
    BY <1>6, <1>8, <1>9, DamagedEdits
  <1>11. Local(u, r, S)
    BY <1>9, <1>10, LocalWithin
  <1>12. Edits(u, s, r, {c})
    <2>1. Edits(u, s, r, {c} \cup {})
      BY <1>8, <1>10, EditsTrans
    <2>2. QED
      BY <2>1, EditsWithin
  <1>13. QED
    BY <1>3, <1>8, <1>10, <1>11, <1>12, BlankTyped DEF RowIs, KindAt, Vacant

\* A cell written with its attributes: one without marks, and not a leading spacer.
PlainCell(cell) == cell \in Cell /\ ~cell.lead /\ ~cell.marked /\ cell.ownMarks = 0

Shows(u, r, c, cell) == KindAt(u, r, c) = cell.k
LEMMA PutEdits ==
  ASSUME NEW s, NEW r \in 0..LastRow, NEW S, Local(s, r, S), NEW c \in 0..LastCol, NEW cell, PlainCell(cell), NEW link \in Nat,
         NEW u, u = Put(s, r, c, cell, link)
  PROVE  /\ Local(u, r, S \cup {c}) /\ Edits(u, s, r, {c})
         /\ Shows(u, r, c, cell)
         /\ c = LastCol => ~Vacant(u, r)
  <1>1. s.rows[r] \in Row /\ Fit(s.rows[r]) /\ s \in State /\ s.rows \in [0..LastRow -> Row]
    BY DEF Local, State
  <1>2. PICK row : row = PutInRow(s.rows[r], c, cell, link)
    OBVIOUS
  <1>3. FitBut(s.rows[r], c) /\ MarksReady(s.rows[r], c, cell) /\ cell \in Cell /\ ~cell.lead
    BY <1>1 DEF Fit, FitBut, MarksReady, PlainCell
  <1>4. /\ row \in Row /\ Fit(row) /\ row.cells[c].k = cell.k /\ ~row.cells[c].lead
        /\ \A d \in 0..LastCol : d # c => row.cells[d] = s.rows[r].cells[d] /\ Painted(row, d) = Painted(s.rows[r], d)
    BY <1>1, <1>2, <1>3, RowPut
  <1>5. u = Written(s, r, row)
    BY <1>1, <1>2 DEF Put, PutInRow, Written
  <1>6. row.cells[LastCol].lead => s.rows[r].cells[LastCol].lead
    BY <1>4, Sizes
  <1>7. Local(u, r, S \cup {c}) /\ Edits(u, s, r, {c}) /\ RowIs(u, s, r, row)
    <2>1. Alike(s.rows[r], row, {c})
      BY <1>4 DEF Alike
    <2>2. QED
      BY <1>4, <1>5, <1>6, <2>1, RowEdited
  <1>8. QED
    BY <1>4, <1>7 DEF RowIs, KindAt, Vacant, Shows

LEMMA PenCells ==
  \A k \in Kinds : PlainCell(PenCell(k)) /\ PenCell(k).k = k
  BY BlankTyped DEF PlainCell, PenCell, Blank, Cell

\* begin_wrap.
LEMMA WrapBegun ==
  ASSUME NEW s, NEW r \in 0..LastRow, NEW S, Local(s, r, S), NEW u, u = BeginWrap(s, r)
  PROVE  Local(u, r, S) /\ Edits(u, s, r, {}) /\ u.rows[r].wrapped
  <1>1. s.rows[r] \in Row /\ Fit(s.rows[r]) /\ s \in State /\ s.rows \in [0..LastRow -> Row]
    BY DEF Local, State
  <1>2. PICK row : row = Wraps(s.rows[r])
    OBVIOUS
  <1>3. row \in Row /\ Fit(row) /\ row.cells = s.rows[r].cells /\ row.wrapped /\ Beyond(s.rows[r], row, {LastCol})
    BY <1>1, <1>2, RowWraps
  <1>4. PICK v : v = Written(s, r, row)
    OBVIOUS
  <1>5. u = DamageSpan(v, r, LastCol, LastCol)
    BY <1>1, <1>2, <1>4 DEF BeginWrap, Wraps, Written
  <1>6. Alike(s.rows[r], row, {LastCol})
    BY <1>3 DEF Alike, Beyond
  <1>7. Local(v, r, S \cup {LastCol}) /\ Edits(v, s, r, {LastCol}) /\ RowIs(v, s, r, row)
    BY <1>3, <1>4, <1>6, RowEdited
  <1>8. LastCol \in Int /\ LastCol \in 0..LastCol
    BY Sizes
  <1>9. Local(u, r, (S \cup {LastCol}) \ (LastCol..LastCol)) /\ Edits(u, v, r, {}) /\ u.rows = v.rows
    BY <1>5, <1>7, <1>8, DamagedEdits
  <1>10. Local(u, r, S)
    BY <1>8, <1>9, LocalWithin
  <1>11. Edits(u, s, r, {LastCol} \cup {})
    BY <1>7, <1>9, EditsTrans
  <1>12. KindAt(u, r, LastCol) = KindAt(s, r, LastCol)
    BY <1>3, <1>7, <1>9 DEF RowIs, KindAt
  <1>13. QED
    BY <1>3, <1>7, <1>9, <1>10, <1>11, <1>12 DEF RowIs, Edits

\* end_wrap.
LEMMA WrapEnded ==
  ASSUME NEW s, NEW r \in 0..LastRow, NEW S, Local(s, r, S), NEW u, u = EndWrap(s, r)
  PROVE  Local(u, r, S) /\ Edits(u, s, r, {}) /\ ~Vacant(u, r)
  <1>1. s.rows[r] \in Row /\ Fit(s.rows[r]) /\ s \in State /\ s.rows \in [0..LastRow -> Row]
    BY DEF Local, State
  <1>2. PICK x : x = Unled(s.rows[r])
    OBVIOUS
  <1>3. /\ x \in Row /\ Fit(x)
        /\ \A c \in 0..LastCol : /\ x.cells[c].k = s.rows[r].cells[c].k /\ ~x.cells[LastCol].lead
                                 /\ Painted(x, c) = Painted(s.rows[r], c)
    BY <1>1, <1>2, RowUnled
  <1>4. PICK row : row = [x EXCEPT !.wrapped = FALSE]
    OBVIOUS
  <1>5. row \in Row /\ row.cells = x.cells /\ row.links = x.links /\ row.marks = x.marks /\ ~row.wrapped
    BY <1>3, <1>4 DEF Row
  <1>6. LastCol \in 0..LastCol /\ LastCol \in Int
    BY Sizes
  <1>7. Fit(row)
    <2>1. \A c \in 0..LastCol : ~x.cells[c].lead
      BY <1>3, <1>6 DEF Fit, LeadFits
    <2>2. \A c \in 0..LastCol : FitAt(row, c)
      BY <1>3, <1>5 DEF Fit, FitAt
    <2>3. QED
      BY <2>1, <2>2, <1>5 DEF Fit, LeadFits
  <1>8. ASSUME NEW c \in 0..LastCol, c # LastCol
        PROVE  Painted(row, c) = Painted(s.rows[r], c)
    <2>1. LinkAt(row, c) = LinkAt(x, c) /\ MarksAt(row, c) = MarksAt(x, c)
      BY <1>5 DEF LinkAt, MarksAt
    <2>2. Painted(row, c) = Painted(x, c)
      BY <2>1, <1>3, <1>5, <1>8, PaintedAlike
    <2>3. QED
      BY <2>2, <1>3
  <1>9. PICK v : v = Written(s, r, row)
    OBVIOUS
  <1>10. u = DamageSpan(v, r, LastCol, LastCol)
    <2>1. row = [s.rows[r] EXCEPT !.wrapped = FALSE, !.cells[LastCol].lead = FALSE]
      BY <1>1, <1>2, <1>4 DEF Unled, Row
    <2>2. v = [s EXCEPT !.rows[r].wrapped = FALSE, !.rows[r].cells[LastCol].lead = FALSE]
      BY <1>1, <2>1, <1>9 DEF Written, State, Row
    <2>3. QED
      BY <2>2 DEF EndWrap
  <1>11. Alike(s.rows[r], row, {LastCol})
    BY <1>3, <1>5, <1>8 DEF Alike
  <1>12. Local(v, r, S \cup {LastCol}) /\ Edits(v, s, r, {LastCol}) /\ RowIs(v, s, r, row)
    BY <1>3, <1>5, <1>6, <1>7, <1>9, <1>11, RowEdited
  <1>13. Local(u, r, (S \cup {LastCol}) \ (LastCol..LastCol)) /\ Edits(u, v, r, {}) /\ u.rows = v.rows
    BY <1>6, <1>10, <1>12, DamagedEdits
  <1>14. Local(u, r, S)
    BY <1>6, <1>13, LocalWithin
  <1>15. Edits(u, s, r, {LastCol} \cup {})
    BY <1>12, <1>13, EditsTrans
  <1>16. KindAt(u, r, LastCol) = KindAt(s, r, LastCol)
    BY <1>3, <1>5, <1>6, <1>12, <1>13 DEF RowIs, KindAt
  <1>17. QED
    BY <1>3, <1>5, <1>6, <1>12, <1>13, <1>14, <1>15, <1>16 DEF RowIs, Edits, Vacant

\* clear_leading_spacer on a row of the screen, or on history's last.
LEMMA LeadCleared ==
  ASSUME NEW s, NEW r \in 0..LastRow, NEW S, Local(s, r, S), NEW u, u = [s EXCEPT !.rows[r].cells[LastCol].lead = FALSE]
  PROVE  Local(u, r, S) /\ Edits(u, s, r, {}) /\ ~Vacant(u, r)
  <1>1. s.rows[r] \in Row /\ Fit(s.rows[r]) /\ s \in State /\ s.rows \in [0..LastRow -> Row]
    BY DEF Local, State
  <1>2. PICK x : x = Unled(s.rows[r])
    OBVIOUS
  <1>3. /\ x \in Row /\ Fit(x) /\ ~x.cells[LastCol].lead
        /\ \A c \in 0..LastCol : x.cells[c].k = s.rows[r].cells[c].k /\ Painted(x, c) = Painted(s.rows[r], c)
    <2>1. \A c \in 0..LastCol : /\ x.cells[c].k = s.rows[r].cells[c].k /\ ~x.cells[LastCol].lead
                                /\ Painted(x, c) = Painted(s.rows[r], c)
      BY <1>1, <1>2, RowUnled
    <2>2. x \in Row /\ Fit(x)
      BY <1>1, <1>2, RowUnled
    <2>3. QED
      BY <2>1, <2>2, Sizes
  <1>4. Alike(s.rows[r], x, {})
    BY <1>3 DEF Alike
  <1>5. u = Written(s, r, x)
    BY <1>1, <1>2 DEF Written, Unled
  <1>6. Local(u, r, S \cup {}) /\ Edits(u, s, r, {}) /\ RowIs(u, s, r, x)
    BY <1>1, <1>3, <1>4, <1>5, RowEdited
  <1>7. QED
    BY <1>3, <1>6, LocalWithin DEF RowIs, Vacant

LEMMA BackTouched ==
  ASSUME NEW s, NEW r, NEW S, Local(s, r, S), NEW back \in [wrapped : BOOLEAN, lead : BOOLEAN],
         NEW u, u = [s EXCEPT !.back = back]
  PROVE  Local(u, r, S) /\ Edits(u, s, r, {})
  <1>1. s \in State
    BY DEF Local
  <1>2. u \in State /\ u.rows = s.rows /\ u.view = s.view /\ u.dmg = s.dmg /\ Control(u, s)
    BY <1>1 DEF State, Control
  <1>3. QED
    BY <1>2 DEF Local, Told, Edits, Vacant, KindAt

\* void_wrap_artefact_above.
LEMMA Voided ==
  ASSUME NEW s, NEW r \in 0..LastRow, Local(s, r, {}), NEW u, u = VoidWrapArtefactAbove(s, r)
  PROVE  /\ Local(u, r, {}) /\ Edits(u, s, r, {})
         /\ r > 0 => ~Vacant(u, r - 1)
  <1>1. CASE r = 0
    <2>1. s \in State /\ s.back \in [wrapped : BOOLEAN, lead : BOOLEAN]
      BY DEF Local, State
    <2>2. PICK back \in [wrapped : BOOLEAN, lead : BOOLEAN] : back = [s.back EXCEPT !.lead = FALSE]
      BY <2>1
    <2>3. u = [s EXCEPT !.back = back]
      BY <1>1, <2>1, <2>2 DEF VoidWrapArtefactAbove, State
    <2>4. QED
      BY <1>1, <2>3, BackTouched
  <1>2. CASE r > 0 /\ ~Vacant(s, r - 1)
    <2>1. u = s
      BY <1>2 DEF VoidWrapArtefactAbove, Vacant
    <2>2. QED
      BY <1>2, <2>1, EditsNothing
  <1>3. CASE r > 0 /\ Vacant(s, r - 1)
    <2>1. PICK q \in 0..LastRow : q = r - 1
      BY <1>3, Sizes
    <2>2. PICK v : v = [s EXCEPT !.rows[q].cells[LastCol].lead = FALSE]
      OBVIOUS
    <2>3. u = DamageSpan(v, q, LastCol, LastCol)
      BY <1>3, <2>1, <2>2 DEF VoidWrapArtefactAbove, Vacant
    <2>4. Local(s, q, {})
      BY LocalElsewhere
    <2>5. Local(v, q, {}) /\ Edits(v, s, q, {}) /\ ~Vacant(v, q)
      BY <2>2, <2>4, LeadCleared
    <2>6. LastCol \in 0..LastCol
      BY Sizes
    <2>7. Local(u, q, {} \ (LastCol..LastCol)) /\ Edits(u, v, q, {}) /\ u.rows = v.rows
      BY <2>3, <2>5, <2>6, DamagedEdits
    <2>8. Local(u, q, {})
      BY <2>7, LocalWithin
    <2>9. Edits(u, s, q, {} \cup {})
      BY <2>5, <2>7, EditsTrans
    <2>10. Edits(u, s, q, {})
      BY <2>9, EditsWithin
    <2>11. Local(u, r, {}) /\ Edits(u, s, r, {})
      BY <2>8, <2>10, LocalElsewhere, EditsElsewhere
    <2>12. QED
      BY <2>1, <2>5, <2>7, <2>11 DEF Vacant
  <1>4. QED
    BY <1>1, <1>2, <1>3, Sizes

LEMMA VoidedIf ==
  ASSUME NEW s, NEW r \in 0..LastRow, Local(s, r, {}), NEW b \in BOOLEAN, NEW u, u = VoidIf(b, s, r)
  PROVE  /\ Local(u, r, {}) /\ Edits(u, s, r, {})
         /\ b /\ KindAt(s, r, 0) = "wide" /\ r > 0 => ~Vacant(u, r - 1)
  <1>1. CASE b /\ KindAt(s, r, 0) = "wide"
    <2>1. u = VoidWrapArtefactAbove(s, r)
      BY <1>1 DEF VoidIf, IsWide, KindAt
    <2>2. QED
      BY <2>1, Voided
  <1>2. CASE ~(b /\ KindAt(s, r, 0) = "wide")
    <2>1. u = s
      BY <1>2 DEF VoidIf, IsWide, KindAt
    <2>2. QED
      BY <1>2, <2>1, EditsNothing
  <1>3. QED
    BY <1>1, <1>2

----------------------------------------------------------------------------
(* Pairs. *)
\* Between columns b - 1 and b: a wide glyph to the left if and only if its spacer is to the right.
Sound(s, r, b) == (b > 0 /\ KindAt(s, r, b - 1) = "wide") <=> (b < Cols /\ KindAt(s, r, b) = "spacer")
Pairs(s, r, B) == \A q \in 0..LastRow, b \in 0..Cols : q # r \/ b \notin B => Sound(s, q, b)

LEMMA PairsKept ==
  ASSUME NEW s, NEW u, NEW r, NEW B, NEW S, Pairs(s, r, B), Edits(u, s, r, S)
  PROVE  Pairs(u, r, B \cup S \cup {c + 1 : c \in S \cap (0..LastCol)})
  <1> DEFINE C == B \cup S \cup {c + 1 : c \in S \cap (0..LastCol)}
  <1>1. SUFFICES ASSUME NEW q \in 0..LastRow, NEW b \in 0..Cols, q # r \/ b \notin C
                 PROVE  Sound(u, q, b)
    BY DEF Pairs
  <1>2. Sound(s, q, b)
    BY <1>1 DEF Pairs
  <1>3. b < Cols => b \in 0..LastCol
    BY Sizes
  <1>4. b > 0 => b - 1 \in 0..LastCol
    BY Sizes
  <1>5. b < Cols => KindAt(u, q, b) = KindAt(s, q, b)
    BY <1>1, <1>3 DEF Edits
  <1>6. b > 0 => KindAt(u, q, b - 1) = KindAt(s, q, b - 1)
    <2>1. ASSUME b > 0, b - 1 \in S
          PROVE  b \in {c + 1 : c \in S \cap (0..LastCol)}
      <3>1. PICK c \in S \cap (0..LastCol) : c = b - 1
        BY <2>1, <1>4
      <3>2. b = c + 1
        BY <3>1, Sizes
      <3>3. QED
        BY <3>2
    <2>2. QED
      BY <1>1, <1>4, <2>1 DEF Edits
  <1>7. QED
    BY <1>2, <1>5, <1>6 DEF Sound

LEMMA PairsWithin ==
  ASSUME NEW s, NEW r, NEW B, NEW C, Pairs(s, r, B), B \cap (0..Cols) \subseteq C
  PROVE  Pairs(s, r, C)
  BY DEF Pairs

LEMMA PairsElsewhere == ASSUME NEW s, NEW r, NEW q, Pairs(s, r, {}) PROVE Pairs(s, q, {})
  BY DEF Pairs

\* Only the columns S of row r have another kind.
Kinded(u, s, r, S) == \A q \in 0..LastRow, c \in 0..LastCol : q # r \/ c \notin S => KindAt(u, q, c) = KindAt(s, q, c)
LEMMA EditsKinded == ASSUME NEW s, NEW u, NEW r, NEW S, Edits(u, s, r, S) PROVE Kinded(u, s, r, S)
  BY DEF Edits, Kinded

\* The columns from a to b are overwritten by whole glyphs, and neither end was half of a pair.
LEMMA Filled ==
  ASSUME NEW s, NEW u, NEW r \in 0..LastRow, NEW a \in 0..LastCol, NEW b \in 0..LastCol, a <= b,
         Pairs(s, r, a..(b + 1)), Kinded(u, s, r, a..b),
         a > 0 => KindAt(s, r, a - 1) # "wide", b + 1 < Cols => KindAt(s, r, b + 1) # "spacer",
         KindAt(u, r, a) # "spacer", KindAt(u, r, b) # "wide",
         \A c \in (a + 1)..b : Sound(u, r, c)
  PROVE  Pairs(u, r, {})
  <1>1. SUFFICES ASSUME NEW q \in 0..LastRow, NEW c \in 0..Cols
                 PROVE  Sound(u, q, c)
    BY DEF Pairs
  <1>2. (c < Cols => c \in 0..LastCol) /\ (c > 0 => c - 1 \in 0..LastCol)
    BY Sizes
  <1>3. CASE q # r \/ c < a \/ c > b + 1
    <2>1. Sound(s, q, c)
      BY <1>3 DEF Pairs
    <2>2. c < Cols => KindAt(u, q, c) = KindAt(s, q, c)
      BY <1>2, <1>3 DEF Kinded
    <2>3. c > 0 => KindAt(u, q, c - 1) = KindAt(s, q, c - 1)
      BY <1>2, <1>3 DEF Kinded
    <2>4. QED
      BY <2>1, <2>2, <2>3 DEF Sound
  <1>4. CASE q = r /\ c = a
    <2>1. c > 0 => KindAt(u, q, c - 1) = KindAt(s, q, c - 1)
      BY <1>2, <1>4 DEF Kinded
    <2>2. QED
      BY <1>4, <2>1 DEF Sound
  <1>5. CASE q = r /\ c = b + 1
    <2>1. c < Cols => KindAt(u, q, c) = KindAt(s, q, c)
      BY <1>2, <1>5 DEF Kinded
    <2>2. c - 1 = b
      BY <1>5, Sizes
    <2>3. QED
      BY <1>5, <2>1, <2>2 DEF Sound
  <1>6. CASE q = r /\ c \in (a + 1)..b
    BY <1>6
  <1>7. QED
    BY <1>3, <1>4, <1>5, <1>6, Sizes

\* The lead of a spacer that goes is freed.
LEMMA LeadFreed ==
  ASSUME NEW s, NEW r \in 0..LastRow, NEW S, Local(s, r, S), Pairs(s, r, {}), NEW c \in 0..LastCol,
         NEW u, u = FreeLeadOf(s, r, c)
  PROVE  /\ Local(u, r, S) /\ Edits(u, s, r, {c - 1}) /\ Pairs(u, r, {c})
         /\ c > 0 => KindAt(u, r, c - 1) # "wide"
  <1>1. CASE c > 0 /\ KindAt(s, r, c) = "spacer"
    <2>1. PICK d \in 0..LastCol : d = c - 1
      BY <1>1, Sizes
    <2>2. u = FreeCell(s, r, d)
      BY <1>1, <2>1 DEF FreeLeadOf, FreeIf, IsSpacer, KindAt
    <2>3. Local(u, r, S) /\ Edits(u, s, r, {d}) /\ KindAt(u, r, d) = "blank"
      BY <2>2, Freed
    <2>4. Sound(s, r, d) /\ Sound(s, r, c) /\ d \in 0..Cols /\ c \in 0..Cols
      BY <2>1, Sizes DEF Pairs
    <2>5. Pairs(u, r, {} \cup {d} \cup {e + 1 : e \in {d} \cap (0..LastCol)})
      BY <2>3, PairsKept
    <2>6. Pairs(u, r, {d, c})
      <3>1. {} \cup {d} \cup {e + 1 : e \in {d} \cap (0..LastCol)} = {d, c}
        BY <2>1, Sizes
      <3>2. QED
        BY <2>5, <3>1
    <2>7. Sound(u, r, d)
      <3>1. d > 0 => KindAt(u, r, d - 1) = KindAt(s, r, d - 1)
        BY <2>1, <2>3, Sizes DEF Edits
      <3>2. KindAt(s, r, d) = "wide"
        BY <1>1, <2>1, <2>4, Sizes DEF Sound
      <3>3. QED
        BY <2>3, <2>4, <3>1, <3>2 DEF Sound
    <2>8. Pairs(u, r, {c})
      BY <2>6, <2>7 DEF Pairs
    <2>9. QED
      BY <2>1, <2>3, <2>8
  <1>2. CASE ~(c > 0 /\ KindAt(s, r, c) = "spacer")
    <2>1. u = s
      BY <1>2 DEF FreeLeadOf, FreeIf, IsSpacer, KindAt
    <2>2. Sound(s, r, c)
      BY Sizes DEF Pairs
    <2>3. c > 0 => KindAt(s, r, c - 1) # "wide"
      BY <1>2, <2>2 DEF Sound
    <2>4. Pairs(s, r, {c})
      BY PairsWithin
    <2>5. QED
      BY <2>1, <2>3, <2>4, EditsNothing
  <1>3. QED
    BY <1>1, <1>2

\* The spacer of a wide glyph that goes is freed.
LEMMA SpacerFreed ==
  ASSUME NEW s, NEW r \in 0..LastRow, NEW S, Local(s, r, S), NEW B, Pairs(s, r, B), NEW c \in 0..LastCol,
         c + 1 \notin B, c + 2 \notin B, NEW u, u = FreeSpacerOf(s, r, c)
  PROVE  /\ Local(u, r, S) /\ Edits(u, s, r, {c + 1}) /\ Pairs(u, r, B \cup {c + 1})
         /\ c + 1 < Cols => KindAt(u, r, c + 1) # "spacer"
  <1>1. CASE c + 1 < Cols /\ KindAt(s, r, c) = "wide"
    <2>1. PICK d \in 0..LastCol : d = c + 1
      BY <1>1, Sizes
    <2>2. u = FreeCell(s, r, d)
      BY <1>1, <2>1 DEF FreeSpacerOf, FreeIf, IsWide, KindAt
    <2>3. Local(u, r, S) /\ Edits(u, s, r, {d}) /\ KindAt(u, r, d) = "blank"
      BY <2>2, Freed
    <2>4. Sound(s, r, d) /\ Sound(s, r, d + 1) /\ d \in 0..Cols /\ d + 1 \in 0..Cols
      BY <2>1, Sizes DEF Pairs
    <2>5. Pairs(u, r, B \cup {d} \cup {e + 1 : e \in {d} \cap (0..LastCol)})
      BY <2>3, PairsKept
    <2>6. Pairs(u, r, B \cup {d, d + 1})
      <3>1. B \cup {d} \cup {e + 1 : e \in {d} \cap (0..LastCol)} = B \cup {d, d + 1}
        BY <2>1, Sizes
      <3>2. QED
        BY <2>5, <3>1
    <2>7. Sound(u, r, d + 1)
      <3>1. d + 1 < Cols => KindAt(u, r, d + 1) = KindAt(s, r, d + 1)
        BY <2>1, <2>3, Sizes DEF Edits
      <3>2. KindAt(s, r, d) = "spacer"
        BY <1>1, <2>1, <2>4, Sizes DEF Sound
      <3>3. d + 1 > 0 /\ (d + 1) - 1 = d
        BY <2>1, Sizes
      <3>4. QED
        BY <2>3, <2>4, <3>1, <3>2, <3>3 DEF Sound
    <2>8. Pairs(u, r, B \cup {d})
      BY <2>6, <2>7 DEF Pairs
    <2>9. QED
      BY <2>1, <2>3, <2>8
  <1>2. CASE ~(c + 1 < Cols /\ KindAt(s, r, c) = "wide")
    <2>1. u = s
      BY <1>2 DEF FreeSpacerOf, FreeIf, IsWide, KindAt
    <2>2. c + 1 \in 0..Cols /\ c + 1 > 0 /\ (c + 1) - 1 = c
      BY Sizes
    <2>3. Sound(s, r, c + 1)
      BY <2>2 DEF Pairs
    <2>4. c + 1 < Cols => KindAt(s, r, c + 1) # "spacer"
      BY <1>2, <2>2, <2>3 DEF Sound
    <2>5. Pairs(s, r, B \cup {c + 1})
      BY PairsWithin
    <2>6. QED
      BY <2>1, <2>4, <2>5, EditsNothing
  <1>3. QED
    BY <1>1, <1>2

----------------------------------------------------------------------------
(* Vacated columns. *)
\* Where a vacated column has its pair: see VacancyIsBacked.
Strict(s) == ~s.cluster /\ ~s.returned /\ Cols > 2
Backed(s, y) == Strict(s) => \A q \in 0..LastRow : q # y /\ Vacant(s, q) => q < LastRow /\ KindAt(s, q + 1, 0) = "wide"
\* No column was vacated for what stands on row r.
OpenAbove(s, r) == Strict(s) /\ r > 0 => ~Vacant(s, r - 1)
\* A cursor parked at the bottom margin has written the last column: what it makes scroll is
\* not vacated.
Parked(s) == Strict(s) /\ s.park /\ s.row = s.bottom /\ s.bottom < LastRow => ~Vacant(s, s.row)
Whole(s) == Local(s, 0, {}) /\ Pairs(s, 0, {}) /\ Backed(s, -1) /\ Parked(s) /\ s.top <= s.bottom

LEMMA BackedKept ==
  ASSUME NEW s, NEW u, NEW r \in 0..LastRow, NEW S, Edits(u, s, r, S), NEW y, Backed(s, y),
         \/ KindAt(u, r, 0) = KindAt(s, r, 0)
         \/ KindAt(u, r, 0) = "wide"
         \/ OpenAbove(u, r)
         \/ y = r - 1
  PROVE  Backed(u, y)
  <1>1. SUFFICES ASSUME Strict(u), NEW q \in 0..LastRow, q # y, Vacant(u, q)
                 PROVE  q < LastRow /\ KindAt(u, q + 1, 0) = "wide"
    BY DEF Backed
  <1>2. Strict(s)
    BY <1>1 DEF Edits, Control, Strict
  <1>3. Vacant(s, q)
    BY <1>1 DEF Edits
  <1>4. q < LastRow /\ KindAt(s, q + 1, 0) = "wide"
    BY <1>1, <1>2, <1>3 DEF Backed
  <1>5. CASE q + 1 = r
    <2>1. q = r - 1 /\ r > 0
      BY <1>5, Sizes
    <2>2. QED
      BY <1>1, <1>4, <1>5, <2>1 DEF OpenAbove
  <1>6. CASE q + 1 # r
    <2>1. q + 1 \in 0..LastRow /\ 0 \in 0..LastCol
      BY <1>4, Sizes
    <2>2. KindAt(u, q + 1, 0) = KindAt(s, q + 1, 0)
      BY <1>6, <2>1 DEF Edits
    <2>3. QED
      BY <1>4, <2>2
  <1>7. QED
    BY <1>5, <1>6

LEMMA OpenKept ==
  ASSUME NEW s, NEW u, NEW r \in 0..LastRow, NEW q, NEW S, Edits(u, s, q, S), OpenAbove(s, r)
  PROVE  OpenAbove(u, r)
  <1>1. r > 0 => r - 1 \in 0..LastRow
    BY Sizes
  <1>2. Strict(u) => Strict(s)
    BY DEF Strict, Edits, Control
  <1>3. QED
    BY <1>1, <1>2 DEF OpenAbove, Edits

\* The row is free of what was vacated for it: it was not wide, or void_wrap_artefact_above ran.
LEMMA Opened ==
  ASSUME NEW s, NEW r \in 0..LastRow, Local(s, r, {}), NEW y, Backed(s, y), y # r - 1,
         NEW u, u = VoidIf(TRUE, s, r)
  PROVE  OpenAbove(u, r)
  <1>1. PICK b \in BOOLEAN : b = TRUE
    OBVIOUS
  <1>2. Edits(u, s, r, {}) /\ (KindAt(s, r, 0) = "wide" /\ r > 0 => ~Vacant(u, r - 1))
    BY <1>1, VoidedIf
  <1>3. SUFFICES ASSUME Strict(u), r > 0, Vacant(u, r - 1) PROVE FALSE
    BY DEF OpenAbove
  <1>4. PICK q \in 0..LastRow : q = r - 1
    BY <1>3, Sizes
  <1>5. Strict(s) /\ Vacant(s, q)
    BY <1>2, <1>3, <1>4 DEF Strict, Edits, Control
  <1>6. q + 1 = r
    BY <1>4, Sizes
  <1>7. KindAt(s, q + 1, 0) = "wide"
    BY <1>4, <1>5 DEF Backed
  <1>8. QED
    BY <1>2, <1>3, <1>6, <1>7

LEMMA EditedWhole ==
  ASSUME NEW s, Whole(s), NEW u, NEW r \in 0..LastRow, NEW S, Local(u, r, {}), Edits(u, s, r, S), Pairs(u, r, {}),
         \/ KindAt(u, r, 0) = KindAt(s, r, 0)
         \/ KindAt(u, r, 0) = "wide"
         \/ OpenAbove(u, r)
  PROVE  Whole(u)
  <1>1. Backed(u, -1)
    BY BackedKept DEF Whole
  <1>2. s.row \in 0..LastRow
    BY DEF Whole, Local, State
  <1>3. Parked(u) /\ u.top <= u.bottom
    BY <1>2 DEF Whole, Parked, Edits, Control, Strict
  <1>4. QED
    BY <1>1, <1>3, LocalElsewhere, PairsElsewhere DEF Whole

\* Nothing of the cells is changed.
LEMMA UntouchedWhole ==
  ASSUME NEW s, Whole(s), NEW u, NEW r \in 0..LastRow, Local(u, r, {}), Edits(u, s, r, {})
  PROVE  Whole(u)
  <1>1. Pairs(s, r, {})
    BY PairsElsewhere DEF Whole
  <1>2. Pairs(u, r, {} \cup {} \cup {c + 1 : c \in {} \cap (0..LastCol)})
    BY <1>1, PairsKept
  <1>3. Pairs(u, r, {})
    BY <1>2
  <1>4. KindAt(u, r, 0) = KindAt(s, r, 0)
    BY Sizes DEF Edits
  <1>5. QED
    BY <1>3, <1>4, EditedWhole

----------------------------------------------------------------------------
(* Erasing. *)
\* The columns from a to b become blank.
LEMMA BlankedEdits ==
  ASSUME NEW s, NEW r \in 0..LastRow, NEW S, Local(s, r, S), NEW a \in 0..LastCol, NEW b \in 0..LastCol, a <= b,
         NEW u, u = Blanked(s, r, a, b + 1)
  PROVE  /\ Local(u, r, S) /\ Edits(u, s, r, a..b)
         /\ \A c \in a..b : KindAt(u, r, c) = "blank"
         /\ b = LastCol => ~Vacant(u, r)
  <1>1. s.rows[r] \in Row /\ Fit(s.rows[r]) /\ s \in State /\ s.rows \in [0..LastRow -> Row]
    BY DEF Local, State
  <1>2. (b + 1) - 1 = b /\ b + 1 > a /\ a..b \subseteq 0..LastCol
    BY Sizes
  <1>3. PICK T : T = a..b
    OBVIOUS
  <1>4. PICK row : row = Cleared(s.rows[r], T)
    OBVIOUS
  <1>5. /\ row \in Row /\ Fit(row)
        /\ \A c \in 0..LastCol : c \in T => row.cells[c] = Blank
        /\ \A c \in 0..LastCol : c \notin T => row.cells[c] = s.rows[r].cells[c] /\ Painted(row, c) = Painted(s.rows[r], c)
    BY <1>1, <1>4, RowCleared
  <1>6. PICK v : v = Written(s, r, row)
    OBVIOUS
  <1>7. u = DamageSpan(v, r, a, b)
    <2>1. PICK to : to = b + 1
      OBVIOUS
    <2>2. a..(to - 1) = T /\ to > a /\ to - 1 = b
      BY <1>2, <1>3, <2>1
    <2>3. [c \in 0..LastCol |-> IF c \in a..(to - 1) THEN Blank ELSE s.rows[r].cells[c]]
            = [c \in 0..LastCol |-> IF c \in T THEN Blank ELSE s.rows[r].cells[c]]
      BY <2>2
    <2>4. v = [s EXCEPT !.rows[r] = PurgeSideMaps([s.rows[r] EXCEPT !.cells =
                 [c \in 0..LastCol |-> IF c \in a..(to - 1) THEN Blank ELSE s.rows[r].cells[c]]], a..(to - 1))]
      BY <2>2, <2>3, <1>4, <1>6 DEF Written, Cleared
    <2>5. u = Blanked(s, r, a, to)
      BY <2>1
    <2>6. QED
      BY <2>2, <2>4, <2>5 DEF Blanked
  <1>8. row.cells[LastCol].lead => s.rows[r].cells[LastCol].lead
    BY <1>5, BlankTyped, Sizes
  <1>9. Alike(s.rows[r], row, T)
    BY <1>5 DEF Alike
  <1>10. Local(v, r, S \cup T) /\ Edits(v, s, r, T) /\ RowIs(v, s, r, row)
    BY <1>1, <1>5, <1>6, <1>8, <1>9, RowEdited
  <1>11. Local(u, r, (S \cup T) \ (a..b)) /\ Edits(u, v, r, {}) /\ u.rows = v.rows
    BY <1>7, <1>10, DamagedEdits
  <1>12. Local(u, r, S)
    BY <1>3, <1>11, LocalWithin
  <1>13. Edits(u, s, r, T \cup {})
    BY <1>10, <1>11, EditsTrans
  <1>14. Edits(u, s, r, a..b)
    BY <1>3, <1>13, EditsWithin
  <1>15. \A c \in 0..LastCol : c \in T => u.rows[r].cells[c] = Blank
    BY <1>5, <1>10, <1>11 DEF RowIs
  <1>16. b = LastCol => LastCol \in T
    BY <1>3, Sizes
  <1>17. QED
    BY <1>2, <1>3, <1>12, <1>14, <1>15, <1>16, BlankTyped, Sizes DEF KindAt, Vacant

\* clear_cells.
LEMMA CellsCleared ==
  ASSUME NEW s, Whole(s), NEW r \in 0..LastRow, NEW a \in 0..LastCol, NEW b \in 0..LastCol, a <= b,
         NEW u, u = ClearCells(s, r, a, b + 1)
  PROVE  /\ Whole(u) /\ Local(u, r, {})
         /\ Control(u, s)
         /\ b = LastCol => ~Vacant(u, r)
  <1>1. b + 1 > a /\ a \in Int /\ b \in Int /\ LastCol \in Int /\ Cols = LastCol + 1 /\ 0 \in 0..LastCol
    BY Sizes
  <1>2. PICK f \in BOOLEAN : f <=> a <= 1
    OBVIOUS
  <1>3. PICK v1 : v1 = VoidIf(f, s, r)
    OBVIOUS
  <1>4. PICK v2 : v2 = FreeLeadOf(v1, r, a)
    OBVIOUS
  <1>5. PICK v3 : v3 = FreeSpacerOf(v2, r, b)
    OBVIOUS
  <1>6. u = Blanked(v3, r, a, b + 1)
    <2>1. (a <= 1 /\ b + 1 > a) = f /\ (b + 1) - 1 = b
      BY <1>1, <1>2
    <2>2. QED
      BY <1>1, <2>1, <1>3, <1>4, <1>5 DEF ClearCells
  <1>7. Local(s, r, {})
    BY LocalElsewhere DEF Whole
  <1>8. Local(v1, r, {}) /\ Edits(v1, s, r, {})
    BY <1>3, <1>7, VoidedIf
  <1>9. Whole(v1)
    BY <1>8, UntouchedWhole
  <1>10. a <= 1 => OpenAbove(v1, r)
    <2>1. r - 1 # -1 => Backed(s, -1)
      BY DEF Whole
    <2>2. CASE r = 0
      BY <2>2 DEF OpenAbove
    <2>3. CASE r # 0 /\ a <= 1
      <3>1. v1 = VoidIf(TRUE, s, r)
        BY <2>3, <1>2, <1>3
      <3>2. -1 # r - 1
        BY <2>3, Sizes
      <3>3. Backed(s, -1)
        BY DEF Whole
      <3>4. QED
        BY <3>1, <3>2, <3>3, <1>7, Opened
    <2>4. QED
      BY <2>2, <2>3
  <1>11. Pairs(v1, r, {})
    BY <1>9, PairsElsewhere DEF Whole
  <1>12. /\ Local(v2, r, {}) /\ Edits(v2, v1, r, {a - 1}) /\ Pairs(v2, r, {a})
         /\ a > 0 => KindAt(v2, r, a - 1) # "wide"
    BY <1>4, <1>8, <1>11, LeadFreed
  <1>13. /\ Local(v3, r, {}) /\ Edits(v3, v2, r, {b + 1}) /\ Pairs(v3, r, {a} \cup {b + 1})
         /\ b + 1 < Cols => KindAt(v3, r, b + 1) # "spacer"
    <2>1. b + 1 \notin {a} /\ b + 2 \notin {a}
      BY <1>1
    <2>2. PICK B : B = {a}
      OBVIOUS
    <2>3. QED
      BY <2>1, <2>2, <1>5, <1>12, SpacerFreed
  <1>14. Pairs(v3, r, a..(b + 1))
    <2>1. ({a} \cup {b + 1}) \cap (0..Cols) \subseteq a..(b + 1)
      BY <1>1
    <2>2. QED
      BY <2>1, <1>13, PairsWithin
  <1>15. /\ Local(u, r, {}) /\ Edits(u, v3, r, a..b)
         /\ \A c \in a..b : KindAt(u, r, c) = "blank"
         /\ b = LastCol => ~Vacant(u, r)
    BY <1>6, <1>13, BlankedEdits
  <1>16. a > 0 => KindAt(v3, r, a - 1) # "wide"
    <2>1. a > 0 => a - 1 \in 0..LastCol /\ a - 1 \notin {b + 1}
      BY <1>1
    <2>2. a > 0 => KindAt(v3, r, a - 1) = KindAt(v2, r, a - 1)
      BY <2>1, <1>13 DEF Edits
    <2>3. QED
      BY <2>2, <1>12
  <1>17. \A c \in (a + 1)..b : Sound(u, r, c)
    <2>1. SUFFICES ASSUME NEW c \in (a + 1)..b PROVE Sound(u, r, c)
      OBVIOUS
    <2>2. c \in a..b /\ c - 1 \in a..b
      BY <1>1
    <2>3. KindAt(u, r, c) = "blank" /\ KindAt(u, r, c - 1) = "blank"
      BY <2>2, <1>15
    <2>4. QED
      BY <2>3 DEF Sound
  <1>18. KindAt(u, r, a) # "spacer" /\ KindAt(u, r, b) # "wide"
    <2>1. a \in a..b /\ b \in a..b
      BY <1>1
    <2>2. QED
      BY <2>1, <1>15
  <1>19. Pairs(u, r, {})
    <2>1. Kinded(u, v3, r, a..b)
      BY <1>15, EditsKinded
    <2>2. QED
      BY <2>1, <1>13, <1>14, <1>16, <1>17, <1>18, Filled
  <1>20. Edits(u, v1, r, {a - 1} \cup {b + 1} \cup (a..b))
    <2>1. Edits(v3, v1, r, {a - 1} \cup {b + 1})
      BY <1>12, <1>13, EditsTrans
    <2>2. QED
      BY <2>1, <1>15, EditsTrans
  <1>21. KindAt(u, r, 0) = KindAt(v1, r, 0) \/ OpenAbove(u, r)
    <2>1. CASE a <= 1
      <3>1. OpenAbove(u, r)
        BY <2>1, <1>10, <1>20, OpenKept
      <3>2. QED
        BY <3>1
    <2>2. CASE a > 1
      <3>1. 0 \notin {a - 1} \cup {b + 1} \cup (a..b)
        BY <2>2, <1>1
      <3>2. QED
        BY <3>1, <1>1, <1>20 DEF Edits
    <2>3. QED
      BY <1>1, <2>1, <2>2
  <1>22. Whole(u)
    BY <1>9, <1>15, <1>19, <1>20, <1>21, EditedWhole
  <1>23. QED
    BY <1>8, <1>15, <1>20, <1>22, ControlTrans DEF Edits

LEMMA WrapEndedWhole ==
  ASSUME NEW s, Whole(s), NEW r \in 0..LastRow, NEW u, u = EndWrap(s, r)
  PROVE  Whole(u) /\ Control(u, s) /\ ~Vacant(u, r)
  <1>1. Local(s, r, {})
    BY LocalElsewhere DEF Whole
  <1>2. Local(u, r, {}) /\ Edits(u, s, r, {}) /\ ~Vacant(u, r)
    BY <1>1, WrapEnded
  <1>3. QED
    BY <1>2, UntouchedWhole DEF Edits

LEMMA RowOfBlanks ==
  ASSUME NEW s, Whole(s), NEW r \in 0..LastRow, NEW u, u = ClearRow(s, r)
  PROVE  Whole(u) /\ Control(u, s)
  <1>1. PICK v : v = ClearCells(s, r, 0, LastCol + 1)
    OBVIOUS
  <1>2. u = EndWrap(v, r)
    BY <1>1, Sizes DEF ClearRow
  <1>3. Whole(v) /\ Control(v, s)
    BY <1>1, Sizes, CellsCleared
  <1>4. Whole(u) /\ Control(u, v)
    BY <1>2, <1>3, WrapEndedWhole
  <1>5. QED
    BY <1>3, <1>4, ControlTrans

LEMMA RightErased ==
  ASSUME NEW s, Whole(s), NEW u, u = EraseRight(s)
  PROVE  Whole(u) /\ Control(u, s)
  <1>1. s.row \in 0..LastRow /\ s.col \in 0..LastCol
    BY DEF Whole, Local, State
  <1>2. PICK v : v = ClearCells(s, s.row, s.col, LastCol + 1)
    OBVIOUS
  <1>3. u = EndWrap(v, s.row)
    BY <1>2, Sizes DEF EraseRight
  <1>4. s.col <= LastCol /\ LastCol \in 0..LastCol
    BY <1>1, Sizes
  <1>5. Whole(v) /\ Control(v, s)
    BY <1>1, <1>2, <1>4, CellsCleared
  <1>6. Whole(u) /\ Control(u, v)
    BY <1>1, <1>3, <1>5, WrapEndedWhole
  <1>7. QED
    BY <1>5, <1>6, ControlTrans

LEMMA LeftErased ==
  ASSUME NEW s, Whole(s), NEW u, u = EraseLeft(s)
  PROVE  Whole(u) /\ Control(u, s)
  <1>1. s.row \in 0..LastRow /\ s.col \in 0..LastCol /\ 0 \in 0..LastCol
    BY Sizes DEF Whole, Local, State
  <1>2. PICK v : v = ClearCells(s, s.row, 0, s.col + 1)
    OBVIOUS
  <1>3. u = v \/ u = [v EXCEPT !.rows[s.row].cells[LastCol].lead = FALSE]
    BY <1>2 DEF EraseLeft, DropArtefactIfErased
  <1>4. 0 <= s.col
    BY <1>1, Sizes
  <1>5. Whole(v) /\ Control(v, s) /\ Local(v, s.row, {})
    BY <1>1, <1>2, <1>4, CellsCleared
  <1>6. CASE u = v
    BY <1>5, <1>6
  <1>7. CASE u = [v EXCEPT !.rows[s.row].cells[LastCol].lead = FALSE]
    <2>1. Local(u, s.row, {}) /\ Edits(u, v, s.row, {})
      BY <1>1, <1>5, <1>7, LeadCleared
    <2>2. Whole(u) /\ Control(u, v)
      BY <1>1, <1>5, <2>1, UntouchedWhole DEF Edits
    <2>3. QED
      BY <1>5, <2>2, ControlTrans
  <1>8. QED
    BY <1>3, <1>6, <1>7

LEMMA CharsErased ==
  ASSUME NEW s, Whole(s), NEW n \in 1..Cols, NEW u, u = EndWrap(ClearCells(s, s.row, s.col, Least(s.col + n, Cols)), s.row)
  PROVE  Whole(u) /\ Control(u, s)
  <1>1. s.row \in 0..LastRow /\ s.col \in 0..LastCol
    BY DEF Whole, Local, State
  <1>2. PICK b \in 0..LastCol : s.col <= b /\ Least(s.col + n, Cols) = b + 1
    <2>1. Least(s.col + n, Cols) - 1 \in 0..LastCol /\ s.col <= Least(s.col + n, Cols) - 1
          /\ Least(s.col + n, Cols) = (Least(s.col + n, Cols) - 1) + 1
      BY <1>1, Sizes DEF Least
    <2>2. QED
      BY <2>1
  <1>3. PICK v : v = ClearCells(s, s.row, s.col, b + 1)
    OBVIOUS
  <1>4. u = EndWrap(v, s.row)
    BY <1>2, <1>3
  <1>5. Whole(v) /\ Control(v, s)
    BY <1>1, <1>2, <1>3, CellsCleared
  <1>6. Whole(u) /\ Control(u, v)
    BY <1>1, <1>4, <1>5, WrapEndedWhole
  <1>7. QED
    BY <1>5, <1>6, ControlTrans

\* Rows cleared one after another.
LEMMA ManyCleared ==
  ASSUME NEW s, Whole(s), NEW first \in 0..LastRow, NEW last \in 0..LastRow, first <= last,
         NEW u, u = ClearRows(s, first, last)
  PROVE  Whole(u) /\ Control(u, s)
  <1> DEFINE N == last - first + 1
             step(f) == [n \in 0..N |-> IF n = 0 THEN s ELSE ClearRow(f[n - 1], first + n - 1)]
  <1>1. N \in Nat /\ N > 0 /\ first \in Int /\ \A k \in Nat : k < N => first + k \in 0..LastRow
    BY Sizes
  <1>2. PICK S : S = {x \in State : Whole(x) /\ Control(x, s)}
    OBVIOUS
  <1>3. \A x \in S, k \in Nat : k < N => ClearRow(x, first + k) \in S
    <2> SUFFICES ASSUME NEW x \in S, NEW k \in Nat, k < N PROVE ClearRow(x, first + k) \in S
      OBVIOUS
    <2>1. PICK y : y = ClearRow(x, first + k)
      OBVIOUS
    <2>2. Whole(x) /\ Control(x, s)
      BY <1>2
    <2>3. Whole(y) /\ Control(y, x)
      BY <1>1, <2>1, <2>2, RowOfBlanks
    <2>4. Control(y, s) /\ y \in State
      BY <2>2, <2>3, ControlTrans DEF Whole, Local
    <2>5. QED
      BY <1>2, <2>1, <2>3, <2>4
  <1>4. s \in S
    BY <1>2 DEF Whole, Local, Control
  <1>5. \E f : f = step(f)
    <2>1. PICK P : P = S \X Nat
      OBVIOUS
    <2>2. PICK g \in [P -> P] :
            g = [p \in P |-> <<IF p[2] < N THEN ClearRow(p[1], first + p[2]) ELSE p[1], p[2] + 1>>]
      <3>1. ASSUME NEW p \in P
            PROVE  <<IF p[2] < N THEN ClearRow(p[1], first + p[2]) ELSE p[1], p[2] + 1>> \in P
        BY <1>3, <2>1
      <3>2. QED
        BY <3>1
    <2>3. PICK x \in P : x = <<s, 0>>
      BY <1>4, <2>1
    <2>4. PICK h \in [Nat -> P] : Loops(h, g, x)
      BY LoopExists
    <2>5. /\ h[0] = x
          /\ \A k \in Nat : h[k + 1] = g[h[k]]
      <3>1. h = [k \in Nat |-> IF k = 0 THEN x ELSE g[h[k - 1]]]
        BY <2>4 DEF Loops
      <3>2. \A k \in Nat : k + 1 \in Nat /\ k + 1 # 0 /\ (k + 1) - 1 = k
        OBVIOUS
      <3>3. QED
        BY <3>1, <3>2
    <2>6. \A k \in Nat : h[k][2] = k
      <3>1. PICK d : d = [k \in Nat |-> <<h[k][2], k>>]
        OBVIOUS
      <3>2. PICK E : E = {<<k, k>> : k \in Nat}
        OBVIOUS
      <3>3. d[0] \in E
        BY <2>3, <2>5, <3>1, <3>2
      <3>4. ASSUME NEW k \in Nat, d[k] \in E PROVE d[k + 1] \in E
        <4>1. h[k][2] = k
          BY <3>1, <3>2, <3>4
        <4>2. h[k + 1][2] = h[k][2] + 1
          <5>1. PICK p \in P : p = h[k]
            BY <2>4
          <5>2. PICK y : y = IF p[2] < N THEN ClearRow(p[1], first + p[2]) ELSE p[1]
            OBVIOUS
          <5>3. g[p] = <<y, p[2] + 1>>
            BY <2>2, <5>2
          <5>4. h[k + 1] = <<y, p[2] + 1>>
            BY <2>5, <5>1, <5>3
          <5>5. QED
            BY <5>1, <5>4
        <4>3. QED
          BY <3>1, <3>2, <4>1, <4>2
      <3>5. \A k \in Nat : d[k] \in E
        BY <3>3, <3>4, Stays
      <3>6. QED
        BY <3>1, <3>2, <3>5
    <2>7. PICK f : f = [n \in 0..N |-> h[n][1]]
      OBVIOUS
    <2>8. ASSUME NEW n \in 0..N
          PROVE  f[n] = IF n = 0 THEN s ELSE ClearRow(f[n - 1], first + n - 1)
      <3>1. CASE n = 0
        BY <2>3, <2>5, <2>7, <2>8, <3>1
      <3>2. CASE n # 0
        <4>1. PICK k \in Nat : n = k + 1 /\ n - 1 = k /\ k < N /\ k \in 0..N
          BY <1>1, <3>2
        <4>2. h[n] = g[h[k]] /\ h[k] \in P /\ h[k][2] = k
          BY <2>4, <2>5, <2>6, <4>1
        <4>3. h[n][1] = ClearRow(h[k][1], first + k)
          BY <2>2, <4>1, <4>2
        <4>4. f[n] = h[n][1] /\ f[k] = h[k][1]
          BY <2>7, <2>8, <4>1
        <4>5. first + n - 1 = first + k
          BY <1>1, <4>1
        <4>6. QED
          BY <3>2, <4>1, <4>3, <4>4, <4>5
      <3>3. QED
        BY <3>1, <3>2
    <2>9. f = step(f)
      BY <2>7, <2>8
    <2>10. QED
      BY <2>9
  <1>6. PICK h : h = ClearedRows(s, first, last)
    OBVIOUS
  <1>7. h = CHOOSE f : f = step(f)
    BY <1>6 DEF ClearedRows
  <1>8. h = step(h)
    BY <1>5, <1>7
  <1>9. PICK e : e = [k \in Nat |-> IF k <= N THEN h[k] ELSE s]
    OBVIOUS
  <1>10. e[0] \in S
    BY <1>1, <1>4, <1>8, <1>9
  <1>11. ASSUME NEW k \in Nat, e[k] \in S PROVE e[k + 1] \in S
    <2>1. CASE k < N
      <3>1. PICK n \in 0..N : n = k + 1 /\ n - 1 = k /\ n # 0 /\ first + n - 1 = first + k
        BY <1>1, <2>1
      <3>2. h[n] = ClearRow(h[n - 1], first + n - 1)
        BY <1>8, <3>1
      <3>3. h[k] \in S /\ e[n] = h[n]
        BY <1>1, <1>9, <1>11, <2>1, <3>1
      <3>4. ClearRow(h[k], first + k) \in S
        BY <1>3, <2>1, <3>3
      <3>5. QED
        BY <3>1, <3>2, <3>3, <3>4
    <2>2. CASE ~(k < N)
      BY <1>1, <1>4, <1>9, <2>2
    <2>3. QED
      BY <2>1, <2>2
  <1>12. \A k \in Nat : e[k] \in S
    BY <1>10, <1>11, Stays
  <1>13. u = h[N] /\ e[N] = h[N]
    BY <1>1, <1>6, <1>9 DEF ClearRows
  <1>14. u \in S
    BY <1>1, <1>12, <1>13
  <1>15. QED
    BY <1>2, <1>14

LEMMA RowsErased ==
  ASSUME NEW s, Whole(s), NEW first, NEW last, NEW u, u = ClearRows(s, first, last),
         first > last \/ (first \in 0..LastRow /\ last \in 0..LastRow /\ first <= last)
  PROVE  Whole(u) /\ Control(u, s)
  <1>1. CASE first > last
    BY <1>1 DEF ClearRows, Control
  <1>2. CASE first \in 0..LastRow /\ last \in 0..LastRow /\ first <= last
    BY <1>2, ManyCleared
  <1>3. QED
    BY <1>1, <1>2

----------------------------------------------------------------------------
(* Shifting rows. *)
RowIsBlank(row) == row \in Row /\ Fit(row) /\ ~row.wrapped /\ \A c \in 0..LastCol : row.cells[c] = Blank
Rolled(u, s, top, bottom, down) ==
  \A q \in 0..LastRow : IF q = Exposed(top, bottom, down) THEN RowIsBlank(u.rows[q])
                        ELSE /\ Source(q, top, bottom, down) \in 0..LastRow
                             /\ u.rows[q] = s.rows[Source(q, top, bottom, down)]
\* The rows of a region, in which a shift may take place.
Region(top, bottom, down) == top \in 0..LastRow /\ bottom \in 0..LastRow /\ top <= bottom /\ down \in BOOLEAN

LEMMA Sources ==
  ASSUME NEW top, NEW bottom, NEW down, Region(top, bottom, down)
  PROVE  /\ Exposed(top, bottom, down) \in 0..LastRow
         /\ \A q \in 0..LastRow : q # Exposed(top, bottom, down) => Source(q, top, bottom, down) \in 0..LastRow
  BY Sizes DEF Region, Exposed, Source

\* record_scroll after the rows moved: the consumer's rows and the damage move with them.
LEMMA Rolls ==
  ASSUME NEW s, Local(s, 0, {}), NEW top, NEW bottom, NEW down, Region(top, bottom, down), NEW row, RowIsBlank(row),
         NEW v, v = [s EXCEPT !.rows = Rotated(@, top, bottom, down, row)],
         NEW u, u = RecordScroll(v, top, bottom, down)
  PROVE  Local(u, 0, {}) /\ Control(u, s) /\ Rolled(u, s, top, bottom, down)
  <1> DEFINE ex == Exposed(top, bottom, down)
             src(q) == Source(q, top, bottom, down)
  <1>1. ex \in 0..LastRow /\ \A q \in 0..LastRow : q # ex => src(q) \in 0..LastRow
    BY Sources
  <1> HIDE DEF ex, src
  <1>2. s \in State
    BY DEF Local
  <1>3. /\ s.rows \in [0..LastRow -> Row] /\ s.view \in [0..LastRow -> [0..LastCol -> Paint]]
        /\ s.dmg \in SUBSET ((0..LastRow) \X (0..LastCol))
    BY <1>2 DEF State
  <1>4. PICK rows : rows = [q \in 0..LastRow |-> IF q = ex THEN row ELSE s.rows[src(q)]]
    OBVIOUS
  <1>5. rows \in [0..LastRow -> Row]
    BY <1>1, <1>3, <1>4 DEF RowIsBlank
  <1>6. v = [s EXCEPT !.rows = rows]
    BY <1>4 DEF Rotated, ex, src
  <1>7. PICK blank \in [0..LastCol -> Paint] : blank = [c \in 0..LastCol |-> ShownBlank]
    <2>1. ShownBlank \in Paint
      BY DEF ShownBlank, Paint, Kinds
    <2>2. QED
      BY <2>1
  <1>8. PICK view \in [0..LastRow -> [0..LastCol -> Paint]] :
          view = [q \in 0..LastRow |-> IF q = ex THEN blank ELSE s.view[src(q)]]
    <2>1. [q \in 0..LastRow |-> IF q = ex THEN blank ELSE s.view[src(q)]] \in [0..LastRow -> [0..LastCol -> Paint]]
      BY <1>1, <1>3
    <2>2. QED
      BY <2>1
  <1>9. PICK dmg \in SUBSET ((0..LastRow) \X (0..LastCol)) :
          dmg = {x \in (0..LastRow) \X (0..LastCol) : x[1] # ex /\ <<src(x[1]), x[2]>> \in s.dmg} \cup {<<ex, c>> : c \in 0..LastCol}
    <2>1. {<<ex, c>> : c \in 0..LastCol} \in SUBSET ((0..LastRow) \X (0..LastCol))
      BY <1>1
    <2>2. QED
      BY <2>1
  <1>10. v.dmg = s.dmg /\ v.view = s.view
    BY <1>2, <1>6 DEF State
  <1>11. u = [v EXCEPT !.view = view, !.dmg = dmg]
    BY <1>7, <1>8, <1>9, <1>10 DEF RecordScroll, Rotated, ex, src
  <1>12. u = [s EXCEPT !.rows = rows, !.view = view, !.dmg = dmg]
    BY <1>6, <1>11
  <1>13. u.rows = rows /\ u.view = view /\ u.dmg = dmg /\ Control(u, s)
    BY <1>2, <1>12 DEF State, Control
  <1>14. u \in State
    BY <1>2, <1>5, <1>12 DEF State
  <1>15. \A q \in 0..LastRow : rows[q] = IF q = ex THEN row ELSE s.rows[src(q)]
    BY <1>4
  <1>16. \A q \in 0..LastRow : Fit(rows[q])
    BY <1>1, <1>15 DEF Local, RowIsBlank
  <1>17. ASSUME NEW q \in 0..LastRow, NEW c \in 0..LastCol
         PROVE  <<q, c>> \in dmg \/ view[q][c] = Painted(rows[q], c)
    <2>1. CASE q = ex
      BY <1>9, <2>1
    <2>2. CASE q # ex
      <3>1. PICK p \in 0..LastRow : p = src(q)
        BY <1>1, <2>2
      <3>2. <<p, c>> \in s.dmg \/ s.view[p][c] = Painted(s.rows[p], c)
        BY DEF Local, Told
      <3>3. <<p, c>> \in s.dmg => <<q, c>> \in dmg
        BY <1>9, <2>2, <3>1
      <3>4. view[q] = s.view[p] /\ rows[q] = s.rows[p]
        BY <1>8, <1>15, <2>2, <3>1
      <3>5. QED
        BY <3>2, <3>3, <3>4
    <2>3. QED
      BY <2>1, <2>2
  <1>18. Local(u, 0, {})
    BY <1>13, <1>14, <1>16, <1>17 DEF Local, Told
  <1>19. Rolled(u, s, top, bottom, down)
    BY <1>1, <1>13, <1>15 DEF Rolled, ex, src
  <1>20. QED
    BY <1>13, <1>18, <1>19

LEMMA RolledPairs ==
  ASSUME NEW s, Pairs(s, 0, {}), NEW top, NEW bottom, NEW down, NEW u, Rolled(u, s, top, bottom, down)
  PROVE  Pairs(u, 0, {})
  <1>1. SUFFICES ASSUME NEW q \in 0..LastRow, NEW b \in 0..Cols PROVE Sound(u, q, b)
    BY DEF Pairs
  <1>2. (b < Cols => b \in 0..LastCol) /\ (b > 0 => b - 1 \in 0..LastCol)
    BY Sizes
  <1>3. CASE q = Exposed(top, bottom, down)
    <2>1. \A c \in 0..LastCol : KindAt(u, q, c) = "blank"
      BY <1>3, BlankTyped DEF Rolled, RowIsBlank, KindAt
    <2>2. QED
      BY <1>2, <2>1 DEF Sound
  <1>4. CASE q # Exposed(top, bottom, down)
    <2>1. PICK p \in 0..LastRow : u.rows[q] = s.rows[p]
      BY <1>4 DEF Rolled
    <2>2. Sound(s, p, b)
      BY DEF Pairs
    <2>3. QED
      BY <2>1, <2>2 DEF Sound, KindAt
  <1>5. QED
    BY <1>3, <1>4

\* The seams of a shift: what was vacated on the row above it, and on the row whose
\* continuation it took away.
Seams(u, top, bottom, down, y, z) ==
  Strict(u) => /\ top > 0 => ~Vacant(u, top - 1)
               /\ down => y = -1 /\ z = -1 /\ ~Vacant(u, bottom)
               /\ ~down => \/ z = bottom - 1 /\ y \in {-1, bottom}
                           \/ y = -1 /\ z = -1 /\ (bottom > 0 => ~Vacant(u, bottom - 1))

LEMMA RolledBacked ==
  ASSUME NEW s, NEW y, Backed(s, y), NEW top, NEW bottom, NEW down, Region(top, bottom, down),
         NEW w, Control(w, s), Rolled(w, s, top, bottom, down),
         NEW u, Edits(u, w, 0, {}), NEW z, Seams(u, top, bottom, down, y, z)
  PROVE  Backed(u, z)
  <1>1. SUFFICES ASSUME Strict(u), NEW q \in 0..LastRow, q # z, Vacant(u, q)
                 PROVE  q < LastRow /\ KindAt(u, q + 1, 0) = "wide"
    BY DEF Backed
  <1>2. Strict(s) /\ Vacant(w, q)
    BY <1>1 DEF Edits, Control, Strict
  <1>3. q # Exposed(top, bottom, down)
    BY <1>2, BlankTyped, Sizes DEF Rolled, RowIsBlank, Vacant
  <1>4. PICK p \in 0..LastRow : p = Source(q, top, bottom, down)
    BY <1>3 DEF Rolled
  <1>5. Vacant(s, p)
    BY <1>2, <1>3, <1>4 DEF Rolled, Vacant
  <1>6. /\ top > 0 => q # top - 1
        /\ down => y = -1 /\ z = -1 /\ q # bottom
        /\ ~down => \/ z = bottom - 1 /\ y \in {-1, bottom}
                    \/ y = -1 /\ z = -1 /\ (bottom > 0 => q # bottom - 1)
    BY <1>1 DEF Seams
  <1>7. /\ top \in Int /\ bottom \in Int /\ q \in Int /\ LastRow \in Int /\ top <= bottom /\ bottom <= LastRow /\ 0 <= top
        /\ 0 <= q /\ q <= LastRow /\ down \in BOOLEAN /\ p \in Int /\ 0 <= p /\ p <= LastRow
    BY Sizes DEF Region
  <1>8. p # y
    BY <1>1, <1>3, <1>4, <1>6, <1>7 DEF Source, Exposed
  <1>9. p < LastRow /\ KindAt(s, p + 1, 0) = "wide"
    BY <1>2, <1>5, <1>8 DEF Backed
  <1>10. /\ q < LastRow /\ q + 1 \in 0..LastRow /\ q + 1 # Exposed(top, bottom, down)
         /\ Source(q + 1, top, bottom, down) = p + 1
    BY <1>1, <1>3, <1>4, <1>6, <1>7, <1>9 DEF Source, Exposed
  <1>11. KindAt(w, q + 1, 0) = KindAt(s, p + 1, 0)
    BY <1>10 DEF Rolled, KindAt
  <1>12. KindAt(u, q + 1, 0) = KindAt(w, q + 1, 0)
    BY <1>10, Sizes DEF Edits
  <1>13. QED
    BY <1>9, <1>10, <1>11, <1>12

\* A screen on which the pair that row y was vacated for is still to be written.
Nearly(s, y) == Local(s, 0, {}) /\ Pairs(s, 0, {}) /\ Backed(s, y) /\ s.top <= s.bottom
\* A shift that serves a wrap may take no vacated column from its pair, but for the one that
\* is about to be written.
Serves(s, bottom, down, serves, y, z) ==
  \/ y = -1 /\ z = -1 /\ ~serves
  \/ y = -1 /\ z = -1 /\ ~down /\ (Strict(s) => ~Vacant(s, bottom))
  \/ ~down /\ z = bottom - 1 /\ y \in {-1, bottom}

LEMMA EndedElsewhere ==
  ASSUME NEW s, Local(s, 0, {}), NEW r \in 0..LastRow, NEW u, u = EndWrap(s, r)
  PROVE  Local(u, 0, {}) /\ Edits(u, s, 0, {}) /\ ~Vacant(u, r)
  <1>1. Local(s, r, {})
    BY LocalElsewhere
  <1>2. Local(u, r, {}) /\ Edits(u, s, r, {}) /\ ~Vacant(u, r)
    BY <1>1, WrapEnded
  <1>3. QED
    BY <1>2, LocalElsewhere, EditsElsewhere

LEMMA NothingPairs ==
  ASSUME NEW s, Pairs(s, 0, {}), NEW u, Edits(u, s, 0, {})
  PROVE  Pairs(u, 0, {})
  <1>1. Pairs(u, 0, {} \cup {} \cup {c + 1 : c \in {} \cap (0..LastCol)})
    BY PairsKept
  <1>2. QED
    BY <1>1

\* shift_region.
LEMMA Scrolls ==
  ASSUME NEW s, NEW y, Nearly(s, y), NEW top, NEW bottom, NEW down, Region(top, bottom, down),
         NEW evicts \in BOOLEAN, NEW serves \in BOOLEAN, NEW z, Serves(s, bottom, down, serves, y, z),
         NEW u, u = ShiftRegion(s, top, bottom, down, evicts, serves)
  PROVE  Nearly(u, z) /\ Control(u, s) /\ (Strict(u) => ~Vacant(u, bottom))
  <1>1. PICK row : row = BlankInPlace(s.rows[IF down THEN bottom ELSE top])
    OBVIOUS
  <1>2. s \in State /\ s.rows \in [0..LastRow -> Row] /\ s.back \in [wrapped : BOOLEAN, lead : BOOLEAN]
    BY DEF Nearly, Local, State
  <1>3. RowIsBlank(row)
    <2>1. PICK x \in Row : x = s.rows[IF down THEN bottom ELSE top]
      BY <1>2 DEF Region
    <2>2. QED
      BY <1>1, <2>1, RowsOfBlanks DEF RowIsBlank
  <1>4. PICK v : v = [s EXCEPT !.rows = Rotated(@, top, bottom, down, row)]
    OBVIOUS
  <1>5. PICK w : w = RecordScroll(v, top, bottom, down)
    OBVIOUS
  <1>6. w = RecordScroll(Rotate(s, top, bottom, down), top, bottom, down)
    BY <1>1, <1>4, <1>5 DEF Rotate
  <1>7. Local(w, 0, {}) /\ Control(w, s) /\ Rolled(w, s, top, bottom, down)
    BY <1>3, <1>4, <1>5, Rolls DEF Nearly
  <1>8. Pairs(w, 0, {})
    BY <1>7, RolledPairs DEF Nearly
  <1>9. PICK a : a = IF top > 0 THEN EndWrap(w, top - 1)
                     ELSE IF evicts THEN w ELSE [w EXCEPT !.back = [wrapped |-> FALSE, lead |-> FALSE]]
    OBVIOUS
  <1>10. Local(a, 0, {}) /\ Edits(a, w, 0, {}) /\ (top > 0 => ~Vacant(a, top - 1))
    <2>1. CASE top > 0
      <3>1. PICK q \in 0..LastRow : q = top - 1
        BY <2>1, Sizes DEF Region
      <3>2. a = EndWrap(w, q)
        BY <2>1, <3>1, <1>9
      <3>3. QED
        BY <3>1, <3>2, <1>7, EndedElsewhere
    <2>2. CASE ~(top > 0) /\ evicts
      <3>1. a = w
        BY <2>2, <1>9
      <3>2. QED
        BY <2>2, <3>1, <1>7, EditsNothing
    <2>3. CASE ~(top > 0) /\ ~evicts
      <3>1. PICK back \in [wrapped : BOOLEAN, lead : BOOLEAN] : back = [wrapped |-> FALSE, lead |-> FALSE]
        OBVIOUS
      <3>2. a = [w EXCEPT !.back = back]
        BY <2>3, <3>1, <1>9
      <3>3. QED
        BY <2>3, <3>2, <1>7, BackTouched
    <2>4. QED
      BY <2>1, <2>2, <2>3
  <1>11. PICK orphan : orphan = IF down THEN bottom ELSE bottom - 1
    OBVIOUS
  <1>12. u = IF serves \/ orphan < 0 \/ (~down /\ bottom = LastRow) THEN a ELSE EndWrap(a, orphan)
    BY <1>6, <1>9, <1>11 DEF ShiftRegion
  <1>13. /\ Local(u, 0, {}) /\ Edits(u, a, 0, {})
         /\ ~serves /\ ~(orphan < 0) /\ ~(~down /\ bottom = LastRow) => ~Vacant(u, orphan)
    <2>1. CASE serves \/ orphan < 0 \/ (~down /\ bottom = LastRow)
      <3>1. u = a
        BY <2>1, <1>12
      <3>2. QED
        BY <2>1, <3>1, <1>10, EditsNothing
    <2>2. CASE ~(serves \/ orphan < 0 \/ (~down /\ bottom = LastRow))
      <3>1. PICK q \in 0..LastRow : q = orphan
        BY <2>2, <1>11, Sizes DEF Region
      <3>2. u = EndWrap(a, q)
        BY <2>2, <3>1, <1>12
      <3>3. QED
        BY <3>1, <3>2, <1>10, EndedElsewhere
    <2>3. QED
      BY <2>1, <2>2
  <1>14. Edits(u, w, 0, {})
    <2>1. Edits(u, w, 0, {} \cup {})
      BY <1>10, <1>13, EditsTrans
    <2>2. QED
      BY <2>1, EditsWithin
  <1>15. Pairs(u, 0, {})
    BY <1>8, <1>14, NothingPairs
  <1>16. Control(u, s) /\ (Strict(u) <=> Strict(s)) /\ u.top = s.top /\ u.bottom = s.bottom
    <2>1. Control(u, s)
      BY <1>7, <1>14, ControlTrans DEF Edits
    <2>2. QED
      BY <2>1 DEF Control, Strict
  <1>17. /\ top \in Int /\ bottom \in Int /\ LastRow \in Int /\ top <= bottom /\ bottom <= LastRow /\ 0 <= top
         /\ down \in BOOLEAN
    BY Sizes DEF Region
  <1>18. top > 0 => ~Vacant(u, top - 1)
    <2>1. top > 0 => top - 1 \in 0..LastRow
      BY <1>17
    <2>2. QED
      BY <2>1, <1>10, <1>13 DEF Edits
  <1>19. ~Vacant(u, bottom)
    <2>1. CASE down
      <3>1. ~serves
        BY <2>1 DEF Serves
      <3>2. orphan = bottom
        BY <2>1, <1>11
      <3>3. ~(orphan < 0)
        BY <3>2, <1>17
      <3>4. ~Vacant(u, orphan)
        BY <2>1, <3>1, <3>3, <1>13
      <3>5. QED
        BY <3>2, <3>4
    <2>2. CASE ~down
      <3>1. bottom = Exposed(top, bottom, down) /\ bottom \in 0..LastRow
        BY <2>2, <1>17 DEF Exposed
      <3>2. ~Vacant(w, bottom)
        BY <3>1, <1>7, BlankTyped, Sizes DEF Rolled, RowIsBlank, Vacant
      <3>3. QED
        BY <3>1, <3>2, <1>14 DEF Edits
    <2>3. QED
      BY <2>1, <2>2
  <1>20. ASSUME Strict(u), ~down, y = -1, z = -1, bottom > 0, ~serves \/ ~Vacant(s, bottom)
         PROVE  ~Vacant(u, bottom - 1)
    <2>1. CASE top = bottom
      BY <2>1, <1>18, <1>20
    <2>2. CASE top < bottom
      <3>1. PICK q \in 0..LastRow : q = bottom - 1
        BY <1>17, <1>20
      <3>2. q # Exposed(top, bottom, down) /\ Source(q, top, bottom, down) = bottom
        BY <2>2, <3>1, <1>17, <1>20 DEF Exposed, Source
      <3>3. Vacant(w, q) <=> Vacant(s, bottom)
        BY <3>2, <1>7 DEF Rolled, Vacant
      <3>4. CASE bottom < LastRow /\ ~serves
        BY <3>4, <1>11, <1>13, <1>17, <1>20
      <3>5. CASE ~Vacant(s, bottom)
        BY <3>1, <3>3, <3>5, <1>14 DEF Edits
      <3>6. CASE bottom = LastRow
        <4>1. ~Vacant(s, bottom)
          <5>1. bottom \in 0..LastRow /\ bottom # y /\ ~(bottom < LastRow)
            BY <3>6, <1>17, <1>20
          <5>2. QED
            BY <5>1, <1>16, <1>20 DEF Nearly, Backed
        <4>2. QED
          BY <4>1, <3>5
      <3>7. QED
        BY <3>4, <3>5, <3>6, <1>17, <1>20
    <2>3. QED
      BY <2>1, <2>2, <1>17
  <1>21. Seams(u, top, bottom, down, y, z)
    BY <1>16, <1>18, <1>19, <1>20, <1>17 DEF Seams, Serves
  <1>22. Backed(u, z)
    BY <1>7, <1>14, <1>21, RolledBacked DEF Nearly
  <1>23. QED
    BY <1>13, <1>15, <1>16, <1>19, <1>22 DEF Nearly

\* Neither a cell nor what the consumer holds is touched.
Sited(u, s) == /\ u \in State /\ u.rows = s.rows /\ u.view = s.view /\ u.dmg = s.dmg
               /\ (Strict(u) => Strict(s)) /\ u.top <= u.bottom
LEMMA SitedNearly ==
  ASSUME NEW s, NEW y, Nearly(s, y), NEW u, Sited(u, s)
  PROVE  Nearly(u, y)
  <1>1. Local(u, 0, {})
    BY DEF Nearly, Sited, Local, Told
  <1>2. Pairs(u, 0, {})
    BY DEF Nearly, Sited, Pairs, Sound, KindAt
  <1>3. Backed(u, y)
    BY DEF Nearly, Sited, Backed, Vacant, KindAt
  <1>4. QED
    BY <1>1, <1>2, <1>3 DEF Nearly, Sited

\* The modes and margins are as they were.
Steady(u, s) ==
  /\ u.top = s.top /\ u.bottom = s.bottom /\ u.pen = s.pen /\ u.autowrap = s.autowrap /\ u.insert = s.insert
  /\ u.cluster = s.cluster /\ u.reverse = s.reverse /\ u.saved = s.saved /\ u.returned = s.returned

LEMMA ControlSteady == ASSUME NEW s, NEW u, Control(u, s) PROVE Steady(u, s)
  BY DEF Control, Steady
LEMMA SteadyTrans == ASSUME NEW s, NEW u, NEW v, Steady(u, s), Steady(v, u) PROVE Steady(v, s)
  BY DEF Steady
LEMMA SteadyStrict == ASSUME NEW s, NEW u, Steady(u, s) PROVE Strict(u) <=> Strict(s)
  BY DEF Steady, Strict

\* push of an evicted row: only what is known of history's last row.
LEMMA Pushed ==
  ASSUME NEW s, NEW y, Nearly(s, y), NEW row \in Row, NEW u, u = PushHistory(s, row)
  PROVE  Nearly(u, y) /\ Control(u, s)
  <1>1. row.cells[LastCol].lead \in BOOLEAN /\ row.wrapped \in BOOLEAN
    BY Sizes DEF Row, Cell
  <1>2. PICK back \in [wrapped : BOOLEAN, lead : BOOLEAN] : back = [wrapped |-> row.wrapped, lead |-> row.cells[LastCol].lead]
    BY <1>1
  <1>3. u = [s EXCEPT !.back = back]
    BY <1>2 DEF PushHistory
  <1>4. s \in State
    BY DEF Nearly, Local
  <1>5. u \in State /\ u.rows = s.rows /\ u.view = s.view /\ u.dmg = s.dmg /\ Control(u, s)
    BY <1>3, <1>4 DEF State, Control
  <1>6. Sited(u, s)
    BY <1>5 DEF Sited, Strict, Control, Nearly
  <1>7. QED
    BY <1>5, <1>6, SitedNearly

\* The row below may be entered: y is the row that was vacated for the pair to come, which
\* row z is then.
Turns(s, serves, y, z) ==
  \/ y = -1 /\ z = -1 /\ (serves /\ Strict(s) /\ s.row = s.bottom => ~Vacant(s, s.row))
  \/ y = s.row /\ WraplineAdvances(s) /\ z = IF s.row = s.bottom THEN s.row - 1 ELSE s.row

\* The whole screen scrolls into history.
LEMMA FullScroll ==
  ASSUME NEW s, NEW y, Nearly(s, y), s.row = s.bottom, s.bottom = LastRow, NEW serves \in BOOLEAN, NEW z, Turns(s, serves, y, z),
         NEW u, u = RecordScroll([s EXCEPT !.rows = Rotated(@, 0, LastRow, FALSE, BlankRow)], 0, LastRow, FALSE)
  PROVE  Nearly(u, z) /\ Control(u, s)
  <1>1. PICK down \in BOOLEAN : down = FALSE
    OBVIOUS
  <1>2. PICK row : row = BlankRow
    OBVIOUS
  <1>3. RowIsBlank(row)
    BY <1>2, RowsOfBlanks DEF RowIsBlank
  <1>4. PICK top \in 0..LastRow : top = 0
    BY Sizes
  <1>5. PICK bottom \in 0..LastRow : bottom = LastRow
    BY Sizes
  <1>6. PICK v : v = [s EXCEPT !.rows = Rotated(@, top, bottom, down, row)]
    OBVIOUS
  <1>7. u = RecordScroll(v, top, bottom, down)
    BY <1>1, <1>2, <1>4, <1>5, <1>6
  <1>8. Region(top, bottom, down)
    BY <1>4, <1>5, Sizes DEF Region
  <1>9. Local(u, 0, {}) /\ Control(u, s) /\ Rolled(u, s, top, bottom, down)
    BY <1>3, <1>6, <1>7, <1>8, Rolls DEF Nearly
  <1>10. Pairs(u, 0, {})
    BY <1>9, RolledPairs DEF Nearly
  <1>11. ASSUME Strict(u), y = -1, bottom > 0
         PROVE  ~Vacant(u, bottom - 1)
    <2>1. PICK q \in 0..LastRow : q = bottom - 1
      BY <1>5, <1>11, Sizes
    <2>2. q # Exposed(top, bottom, down) /\ Source(q, top, bottom, down) = bottom
      BY <1>1, <1>4, <1>11, <2>1, Sizes DEF Exposed, Source
    <2>3. u.rows[q] = s.rows[bottom]
      BY <2>2, <1>9 DEF Rolled
    <2>4. Strict(s)
      BY <1>9, <1>11 DEF Strict, Control
    <2>5. bottom # y /\ ~(bottom < LastRow)
      BY <1>5, <1>11, Sizes
    <2>6. ~Vacant(s, bottom)
      BY <2>4, <2>5 DEF Nearly, Backed
    <2>7. QED
      BY <2>1, <2>3, <2>6 DEF Vacant
  <1>12. (y = -1 /\ z = -1) \/ (y = bottom /\ z = bottom - 1)
    BY <1>5 DEF Turns
  <1>13. Seams(u, top, bottom, down, y, z)
    <2>1. ~(top > 0)
      BY <1>4
    <2>2. QED
      BY <2>1, <1>1, <1>11, <1>12 DEF Seams
  <1>14. Backed(u, z)
    BY <1>8, <1>9, <1>13, EditsNothing, RolledBacked DEF Nearly
  <1>15. u.top <= u.bottom
    BY <1>9 DEF Control, Nearly
  <1>16. QED
    BY <1>9, <1>10, <1>14, <1>15 DEF Nearly

\* linefeed_inner.
LEMMA Linefed ==
  ASSUME NEW s, NEW y, Nearly(s, y), NEW serves \in BOOLEAN, NEW z, Turns(s, serves, y, z),
         NEW u, u = LinefeedInner(s, serves)
  PROVE  Nearly(u, z) /\ Steady(u, s) /\ u.col = s.col /\ u.park = s.park /\ (y # -1 => z = u.row - 1)
  <1>1. /\ s \in State /\ s.row \in 0..LastRow /\ s.top \in 0..LastRow /\ s.bottom \in 0..LastRow /\ s.top <= s.bottom
        /\ s.rows[0] \in Row
    BY Sizes DEF Nearly, Local, State
  <1>2. CASE s.row # s.bottom
    <2>1. PICK row \in 0..LastRow : row = Least(s.row + 1, LastRow)
      <3>1. Least(s.row + 1, LastRow) \in 0..LastRow
        BY <1>1, Sizes DEF Least
      <3>2. QED
        BY <3>1
    <2>2. u = [s EXCEPT !.row = row]
      BY <1>2, <2>1 DEF LinefeedInner
    <2>3. u \in State
      BY <1>1, <2>2 DEF State
    <2>4. /\ u.rows = s.rows /\ u.view = s.view /\ u.dmg = s.dmg /\ Steady(u, s) /\ u.row = row
          /\ u.col = s.col /\ u.park = s.park
      BY <1>1, <2>2 DEF State, Steady
    <2>5. Sited(u, s)
      BY <2>3, <2>4, <1>1, SteadyStrict DEF Sited, Steady
    <2>6. Nearly(u, y)
      BY <2>5, SitedNearly
    <2>7. CASE y = -1
      BY <2>4, <2>6, <2>7, <1>1, Sizes DEF Turns
    <2>8. CASE y # -1
      <3>1. y = s.row /\ z = s.row /\ s.row < LastRow
        BY <2>8, <1>2 DEF Turns, WraplineAdvances
      <3>2. row = s.row + 1
        BY <3>1, <2>1, <1>1, Sizes DEF Least
      <3>3. z = u.row - 1
        BY <3>1, <3>2, <2>4, <1>1, Sizes
      <3>4. QED
        BY <2>4, <2>6, <3>1, <3>3
    <2>9. QED
      BY <2>7, <2>8
  <1>3. ASSUME s.row = s.bottom, NEW v, Nearly(v, z), Control(v, s), u = v \/ u = PushHistory(v, s.rows[0])
        PROVE  Nearly(u, z) /\ Steady(u, s) /\ u.col = s.col /\ u.park = s.park /\ (y # -1 => z = u.row - 1)
    <2>1. Nearly(u, z) /\ Control(u, v)
      <3>1. CASE u = v
        BY <3>1, <1>3 DEF Control
      <3>2. CASE u = PushHistory(v, s.rows[0])
        <4>1. PICK row \in Row : row = s.rows[0]
          BY <1>1
        <4>2. QED
          BY <3>2, <4>1, <1>3, Pushed
      <3>3. QED
        BY <3>1, <3>2, <1>3
    <2>2. Control(u, s)
      BY <2>1, <1>3, ControlTrans
    <2>3. y # -1 => z = s.row - 1
      BY <1>3 DEF Turns
    <2>4. QED
      BY <2>1, <2>2, <2>3, ControlSteady DEF Control
  <1>4. s.row = s.bottom => Serves(s, s.bottom, FALSE, serves, y, z)
    BY DEF Turns, Serves
  <1>5. CASE s.row = s.bottom /\ ~(s.top = 0 /\ s.bottom = LastRow)
    <2>1. PICK evicts \in BOOLEAN : (s.top = 0 => evicts = TRUE) /\ (s.top # 0 => evicts = FALSE)
      <3>1. CASE s.top = 0
        BY <3>1
      <3>2. CASE s.top # 0
        BY <3>2
      <3>3. QED
        BY <3>1, <3>2
    <2>2. PICK down \in BOOLEAN : down = FALSE
      OBVIOUS
    <2>3. PICK v : v = ShiftRegion(s, s.top, s.bottom, down, evicts, serves)
      OBVIOUS
    <2>4. Region(s.top, s.bottom, down) /\ Serves(s, s.bottom, down, serves, y, z)
      BY <1>1, <1>4, <1>5, <2>2 DEF Region
    <2>5. Nearly(v, z) /\ Control(v, s)
      BY <2>3, <2>4, Scrolls
    <2>6. u = v \/ u = PushHistory(v, s.rows[0])
      <3>1. CASE s.top > 0
        <4>1. u = ShiftRegion(s, s.top, s.bottom, FALSE, FALSE, serves)
          BY <3>1, <1>5 DEF LinefeedInner
        <4>2. evicts = FALSE
          BY <3>1, <2>1, <1>1, Sizes
        <4>3. QED
          BY <4>1, <4>2, <2>2, <2>3
      <3>2. CASE ~(s.top > 0)
        <4>1. s.top = 0 /\ s.bottom # LastRow
          BY <3>2, <1>1, <1>5, Sizes
        <4>2. u = PushHistory(ShiftRegion(s, 0, s.bottom, FALSE, TRUE, serves), s.rows[0])
          BY <3>2, <4>1, <1>5 DEF LinefeedInner
        <4>3. evicts = TRUE
          BY <4>1, <2>1
        <4>4. QED
          BY <4>1, <4>2, <4>3, <2>2, <2>3
      <3>3. QED
        BY <3>1, <3>2
    <2>7. QED
      BY <1>3, <1>5, <2>5, <2>6
  <1>6. CASE s.row = s.bottom /\ s.top = 0 /\ s.bottom = LastRow
    <2>1. PICK v : v = RecordScroll([s EXCEPT !.rows = Rotated(@, 0, LastRow, FALSE, BlankRow)], 0, LastRow, FALSE)
      OBVIOUS
    <2>2. Nearly(v, z) /\ Control(v, s)
      BY <1>6, <2>1, FullScroll
    <2>3. u = PushHistory(v, s.rows[0])
      BY <1>6, <2>1 DEF LinefeedInner
    <2>4. QED
      BY <1>3, <1>6, <2>2, <2>3
  <1>7. QED
    BY <1>2, <1>5, <1>6

\* The cursor is placed.
At(s, row, col, park) == [s EXCEPT !.row = row, !.col = col, !.park = park]
LEMMA Placed ==
  ASSUME NEW s, NEW y, Nearly(s, y), NEW row \in 0..LastRow, NEW col \in 0..LastCol, NEW park \in BOOLEAN,
         NEW u, u = At(s, row, col, park)
  PROVE  Nearly(u, y) /\ Steady(u, s) /\ u.row = row /\ u.col = col /\ u.park = park /\ u.rows = s.rows
  <1>1. s \in State
    BY DEF Nearly, Local
  <1>2. u \in State
    BY <1>1 DEF State, At
  <1>3. /\ u.rows = s.rows /\ u.view = s.view /\ u.dmg = s.dmg /\ Steady(u, s) /\ u.row = row
        /\ u.col = col /\ u.park = park
    BY <1>1 DEF State, Steady, At
  <1>4. Sited(u, s)
    <2>1. Strict(u) <=> Strict(s)
      BY <1>3, SteadyStrict
    <2>2. u.top = s.top /\ u.bottom = s.bottom /\ s.top <= s.bottom
      BY <1>3 DEF Steady, Nearly
    <2>3. QED
      BY <1>2, <1>3, <2>1, <2>2 DEF Sited
  <1>5. QED
    BY <1>3, <1>4, SitedNearly

Unpark(s) == [s EXCEPT !.park = FALSE]
LEMMA ParkLeft ==
  ASSUME NEW s, NEW y, Nearly(s, y), NEW u, u = Unpark(s)
  PROVE  Nearly(u, y) /\ Steady(u, s) /\ u.row = s.row /\ u.col = s.col /\ ~u.park /\ u.rows = s.rows
  <1>1. s \in State
    BY DEF Nearly, Local
  <1>2. PICK row \in 0..LastRow : row = s.row
    BY <1>1 DEF State
  <1>3. PICK col \in 0..LastCol : col = s.col
    BY <1>1 DEF State
  <1>4. PICK park \in BOOLEAN : park = FALSE
    OBVIOUS
  <1>5. u = At(s, row, col, park)
    BY <1>1, <1>2, <1>3, <1>4 DEF State, At, Unpark
  <1>6. Nearly(u, y) /\ Steady(u, s) /\ u.row = row /\ u.col = col /\ u.park = park /\ u.rows = s.rows
    BY <1>5, Placed
  <1>7. QED
    BY <1>2, <1>3, <1>4, <1>6

LEMMA NearlyWhole == ASSUME NEW s, Nearly(s, -1), ~s.park PROVE Whole(s)
  BY DEF Nearly, Whole, Parked

\* wrapline.
IsAbove(z, s) == z = s.row - 1
IsRow(y) == y # -1
LEMMA Wrapped ==
  ASSUME NEW s, NEW y, Nearly(s, y), NEW z, Turns(s, TRUE, y, z), NEW u, u = Wrapline(s)
  PROVE  Nearly(u, z) /\ Steady(u, s) /\ u.col = 0 /\ ~u.park /\ (IsRow(y) => IsAbove(z, u))
  <1>1. PICK serves \in BOOLEAN : serves = TRUE
    OBVIOUS
  <1>2. PICK v : v = LinefeedInner(s, serves)
    OBVIOUS
  <1>3. Nearly(v, z) /\ Steady(v, s) /\ (y # -1 => z = v.row - 1)
    <2>1. Turns(s, serves, y, z)
      BY <1>1
    <2>2. QED
      BY <1>2, <2>1, Linefed
  <1>4. v \in State /\ v.row \in 0..LastRow
    BY <1>3 DEF Nearly, Local, State
  <1>5. PICK row \in 0..LastRow : row = v.row
    BY <1>4
  <1>6. PICK col \in 0..LastCol : col = 0
    BY Sizes
  <1>7. PICK park \in BOOLEAN : park = FALSE
    OBVIOUS
  <1>8. u = At(v, row, col, park)
    BY <1>1, <1>2, <1>4, <1>5, <1>6, <1>7 DEF Wrapline, State, At
  <1>9. Nearly(u, z) /\ Steady(u, v) /\ u.row = row /\ u.col = col /\ u.park = park
    BY <1>3, <1>8, Placed
  <1>10. QED
    BY <1>3, <1>5, <1>6, <1>7, <1>9, SteadyTrans DEF IsAbove, IsRow

LEMMA LineFeeds ==
  ASSUME NEW s, Whole(s), NEW u, u = [LinefeedInner(s, FALSE) EXCEPT !.park = FALSE]
  PROVE  Whole(u)
  <1>1. PICK serves \in BOOLEAN : serves = FALSE
    OBVIOUS
  <1>2. PICK v : v = LinefeedInner(s, serves)
    OBVIOUS
  <1>3. Nearly(s, -1)
    BY DEF Whole, Nearly
  <1>4. Turns(s, serves, -1, -1)
    BY <1>1 DEF Turns
  <1>5. Nearly(v, -1)
    BY <1>2, <1>3, <1>4, Linefed
  <1>6. u = Unpark(v)
    BY <1>1, <1>2 DEF Unpark
  <1>7. QED
    BY <1>5, <1>6, ParkLeft, NearlyWhole

\* One line of a region that ends at the bottom margin.
LEMMA LineScrolls ==
  ASSUME NEW s, Whole(s), NEW top, NEW down, Region(top, s.bottom, down),
         NEW u, u = ShiftRegion(s, top, s.bottom, down, FALSE, FALSE)
  PROVE  Whole(u) /\ Control(u, s)
  <1>1. PICK no \in BOOLEAN : no = FALSE
    OBVIOUS
  <1>2. Nearly(s, -1)
    BY DEF Whole, Nearly
  <1>3. Serves(s, s.bottom, down, no, -1, -1)
    BY <1>1 DEF Serves
  <1>4. u = ShiftRegion(s, top, s.bottom, down, no, no)
    BY <1>1
  <1>5. Nearly(u, -1) /\ Control(u, s) /\ (Strict(u) => ~Vacant(u, s.bottom))
    BY <1>2, <1>3, <1>4, Scrolls
  <1>6. Parked(u)
    BY <1>5 DEF Parked, Control
  <1>7. QED
    BY <1>5, <1>6 DEF Nearly, Whole

LEMMA LinesScroll ==
  ASSUME NEW s, Whole(s), NEW top, NEW bottom, bottom = s.bottom, NEW down, Region(top, bottom, down), NEW n \in Nat,
         NEW u, u = ScrollRegionLines(s, top, bottom, n, down)
  PROVE  Whole(u) /\ Control(u, s)
  <1> DEFINE step(f) == [i \in Nat |-> IF i = 0 THEN s ELSE ShiftRegion(f[i - 1], top, bottom, down, FALSE, FALSE)]
  <1>1. PICK S : S = {x \in State : Whole(x) /\ Control(x, s)}
    OBVIOUS
  <1>2. \A x \in S : ShiftRegion(x, top, bottom, down, FALSE, FALSE) \in S
    <2> SUFFICES ASSUME NEW x \in S PROVE ShiftRegion(x, top, bottom, down, FALSE, FALSE) \in S
      OBVIOUS
    <2>1. Whole(x) /\ Control(x, s) /\ x.bottom = bottom
      BY <1>1 DEF Control
    <2>2. PICK y : y = ShiftRegion(x, top, bottom, down, FALSE, FALSE)
      OBVIOUS
    <2>3. Whole(y) /\ Control(y, x)
      BY <2>1, <2>2, LineScrolls
    <2>4. Control(y, s) /\ y \in State
      BY <2>1, <2>3, ControlTrans DEF Whole, Local
    <2>5. QED
      BY <1>1, <2>2, <2>3, <2>4
  <1>3. s \in S
    BY <1>1 DEF Whole, Local, Control
  <1>4. PICK g \in [S -> S] : g = [x \in S |-> ShiftRegion(x, top, bottom, down, FALSE, FALSE)]
    BY <1>2
  <1>5. PICK f \in [Nat -> S] : Loops(f, g, s)
    BY <1>3, LoopExists
  <1>6. f = step(f)
    <2>1. f = [k \in Nat |-> IF k = 0 THEN s ELSE g[f[k - 1]]]
      BY <1>5 DEF Loops
    <2>2. \A k \in Nat : k # 0 => k - 1 \in Nat
      OBVIOUS
    <2>3. QED
      BY <1>4, <1>5, <2>1, <2>2
  <1>7. PICK h : h = ScrolledLines(s, top, bottom, down)
    OBVIOUS
  <1>8. h = CHOOSE i : i = step(i)
    BY <1>7 DEF ScrolledLines
  <1>9. h = step(h)
    BY <1>6, <1>8
  <1>10. ASSUME NEW k \in Nat, h[k] \in S PROVE h[k + 1] \in S
    <2>1. PICK j \in Nat : j = k + 1 /\ j # 0 /\ j - 1 = k
      OBVIOUS
    <2>2. h[j] = ShiftRegion(h[j - 1], top, bottom, down, FALSE, FALSE)
      BY <1>9, <2>1
    <2>3. QED
      BY <1>2, <1>10, <2>1, <2>2
  <1>11. h[0] \in S
    BY <1>3, <1>9
  <1>12. h[n] \in S
    BY <1>10, <1>11, Stays
  <1>13. u = h[n]
    BY <1>7 DEF ScrollRegionLines
  <1>14. QED
    BY <1>1, <1>12, <1>13

Upward(s) == [(IF s.row = s.top THEN ShiftRegion(s, s.top, s.bottom, TRUE, FALSE, FALSE)
               ELSE IF s.row > 0 THEN [s EXCEPT !.row = @ - 1] ELSE s) EXCEPT !.park = FALSE]
LEMMA Indexed ==
  ASSUME NEW s, Whole(s), NEW u, u = Upward(s)
  PROVE  Whole(u)
  <1>1. s \in State /\ s.row \in 0..LastRow /\ s.col \in 0..LastCol /\ s.top \in 0..LastRow /\ s.bottom \in 0..LastRow
        /\ s.top <= s.bottom /\ s.park \in BOOLEAN
    BY DEF Whole, Local, State
  <1>2. Nearly(s, -1)
    BY DEF Whole, Nearly
  <1>3. CASE s.row = s.top
    <2>1. PICK down \in BOOLEAN : down = TRUE
      OBVIOUS
    <2>2. PICK v : v = ShiftRegion(s, s.top, s.bottom, down, FALSE, FALSE)
      OBVIOUS
    <2>3. Whole(v)
      BY <1>1, <2>2, LineScrolls DEF Region
    <2>4. u = Unpark(v)
      BY <1>3, <2>1, <2>2 DEF Unpark, Upward
    <2>5. QED
      BY <2>3, <2>4, ParkLeft, NearlyWhole DEF Whole, Nearly
  <1>4. CASE s.row # s.top /\ s.row > 0
    <2>1. PICK row \in 0..LastRow : row = s.row - 1
      BY <1>1, <1>4, Sizes
    <2>2. PICK park \in BOOLEAN : park = FALSE
      OBVIOUS
    <2>3. PICK col \in 0..LastCol : col = s.col
      BY <1>1
    <2>4. u = At(s, row, col, park)
      BY <1>1, <1>4, <2>1, <2>2, <2>3 DEF State, At, Upward
    <2>5. Nearly(u, -1) /\ u.park = park
      BY <1>2, <2>4, Placed
    <2>6. QED
      BY <2>2, <2>5, NearlyWhole
  <1>5. CASE s.row # s.top /\ ~(s.row > 0)
    <2>1. u = Unpark(s)
      BY <1>5 DEF Unpark, Upward
    <2>2. QED
      BY <1>2, <2>1, ParkLeft, NearlyWhole
  <1>6. QED
    BY <1>3, <1>4, <1>5

----------------------------------------------------------------------------
(* Room for a glyph. *)
\* A column left vacant.
Led(x) == [x EXCEPT !.cells[LastCol].lead = TRUE]
LEMMA RowLed ==
  ASSUME NEW x \in Row, Fit(x), x.wrapped, x.cells[LastCol].k = "blank", NEW y, y = Led(x)
  PROVE  y \in Row /\ Fit(y) /\ Alike(x, y, {}) /\ y.cells[LastCol].k = "blank"
  <1>1. x.cells \in [0..LastCol -> Cell] /\ x.cells[LastCol] \in Cell /\ LastCol \in 0..LastCol
    BY Sizes DEF Row
  <1>2. PICK z \in Cell : z = [x.cells[LastCol] EXCEPT !.lead = TRUE]
    BY <1>1 DEF Cell
  <1>3. PICK cells \in [0..LastCol -> Cell] : cells = [x.cells EXCEPT ![LastCol] = z]
    BY <1>1
  <1>4. y = [x EXCEPT !.cells = cells]
    BY <1>1, <1>2, <1>3 DEF Led, Row
  <1>5. y \in Row /\ y.cells = cells /\ y.links = x.links /\ y.marks = x.marks /\ y.wrapped = x.wrapped
    BY <1>4 DEF Row
  <1>6. ASSUME NEW c \in 0..LastCol
        PROVE  /\ y.cells[c].k = x.cells[c].k /\ y.cells[c].linked = x.cells[c].linked /\ y.cells[c].own = x.cells[c].own
               /\ y.cells[c].marked = x.cells[c].marked /\ y.cells[c].ownMarks = x.cells[c].ownMarks
               /\ c # LastCol => y.cells[c].lead = x.cells[c].lead
    <2>1. CASE c = LastCol
      BY <2>1, <1>1, <1>2, <1>3, <1>5 DEF Cell
    <2>2. CASE c # LastCol
      BY <2>2, <1>1, <1>3, <1>5
    <2>3. QED
      BY <2>1, <2>2
  <1>7. ASSUME NEW c \in 0..LastCol
        PROVE  Painted(y, c) = Painted(x, c) /\ FitAt(y, c) /\ LeadFits(y, c)
    <2>1. LinkAt(y, c) = LinkAt(x, c) /\ MarksAt(y, c) = MarksAt(x, c)
      BY <1>5, <1>6 DEF LinkAt, MarksAt
    <2>2. FitAt(x, c) /\ LeadFits(x, c)
      BY DEF Fit
    <2>3. FitAt(y, c)
      BY <2>2, <1>5, <1>6 DEF FitAt
    <2>4. LeadFits(y, c)
      BY <2>2, <1>5, <1>6 DEF LeadFits
    <2>5. QED
      BY <2>1, <2>3, <2>4, <1>5, <1>6, PaintedAlike
  <1>8. QED
    BY <1>1, <1>5, <1>6, <1>7 DEF Fit, Alike

\* vacate_for_wrap and begin_wrap on a row.
VacatedRow(x, link) == Wraps(PutInRow(x, LastCol, [PenCell("blank") EXCEPT !.lead = TRUE], link))
LEMMA RowVacated ==
  ASSUME NEW x \in Row, Fit(x), NEW link \in Nat, NEW y, y = VacatedRow(x, link)
  PROVE  y \in Row /\ Fit(y) /\ Alike(x, y, {LastCol}) /\ y.cells[LastCol].k = "blank"
  <1>1. PICK cell \in Cell : cell = PenCell("blank")
    BY PenCells DEF PlainCell, Kinds
  <1>2. PlainCell(cell) /\ cell.k = "blank"
    BY <1>1, PenCells DEF Kinds
  <1>3. PICK z : z = PutInRow(x, LastCol, cell, link)
    OBVIOUS
  <1>4. PICK last \in 0..LastCol : last = LastCol
    BY Sizes
  <1>5. /\ z \in Row /\ Fit(z) /\ z.cells[last].k = cell.k
        /\ \A d \in 0..LastCol : d # last => z.cells[d] = x.cells[d] /\ Painted(z, d) = Painted(x, d)
    <2>1. FitBut(x, last) /\ MarksReady(x, last, cell) /\ ~cell.lead
      BY <1>2 DEF Fit, FitBut, MarksReady, PlainCell
    <2>2. QED
      BY <2>1, <1>3, <1>4, RowPut
  <1>6. PICK w : w = Wraps(z)
    OBVIOUS
  <1>7. w \in Row /\ Fit(w) /\ w.cells = z.cells /\ w.wrapped /\ Beyond(z, w, {LastCol})
    BY <1>5, <1>6, RowWraps
  <1>8. y = Led(w)
    <2>1. PICK lead \in Cell : lead = [cell EXCEPT !.lead = TRUE]
      BY DEF Cell
    <2>2. PICK p : p = PutInRow(x, last, lead, link)
      OBVIOUS
    <2>3. y = Wraps(p)
      BY <1>1, <1>4, <2>1, <2>2 DEF VacatedRow
    <2>4. /\ z.cells = [x.cells EXCEPT ![last] = Owned(cell, link)]
          /\ z.links = EntrySet(x.links, last, link) /\ z.marks = x.marks /\ z.wrapped = x.wrapped
          /\ Owned(cell, link) \in Cell
      <3>1. z = PutInRow(x, last, cell, link)
        BY <1>3, <1>4
      <3>2. WrittenAt(x, z, last, cell, link)
        BY <3>1, PutShape
      <3>3. QED
        BY <3>2 DEF WrittenAt
    <2>5. /\ p \in Row /\ p.cells = [x.cells EXCEPT ![last] = Owned(lead, link)]
          /\ p.links = EntrySet(x.links, last, link) /\ p.marks = x.marks /\ p.wrapped = x.wrapped
          /\ Owned(lead, link) \in Cell
      <3>1. WrittenAt(x, p, last, lead, link)
        BY <2>2, PutShape
      <3>2. QED
        BY <3>1 DEF WrittenAt
    <2>6. Owned(lead, link) = [Owned(cell, link) EXCEPT !.lead = TRUE]
      BY <2>1 DEF Owned, Cell
    <2>7. x.cells \in [0..LastCol -> Cell]
      BY DEF Row
    <2>8. p.cells = [z.cells EXCEPT ![last] = [@ EXCEPT !.lead = TRUE]]
      BY <2>4, <2>5, <2>6, <2>7
    <2>9. p = [z EXCEPT !.cells = [z.cells EXCEPT ![last] = [@ EXCEPT !.lead = TRUE]]]
      BY <1>5, <2>4, <2>5, <2>8 DEF Row
    <2>10. [p EXCEPT !.wrapped = TRUE] = [[z EXCEPT !.wrapped = TRUE] EXCEPT !.cells[last].lead = TRUE]
      BY <1>5, <2>9 DEF Row
    <2>11. QED
      BY <1>4, <1>6, <2>3, <2>10 DEF Led, Wraps
  <1>9. w.cells[LastCol].k = "blank"
    BY <1>2, <1>4, <1>5, <1>7
  <1>10. y \in Row /\ Fit(y) /\ Alike(w, y, {}) /\ y.cells[LastCol].k = "blank"
    BY <1>7, <1>8, <1>9, RowLed
  <1>11. ASSUME NEW d \in 0..LastCol, d # LastCol
         PROVE  y.cells[d].k = x.cells[d].k /\ Painted(y, d) = Painted(x, d)
    BY <1>4, <1>5, <1>7, <1>10, <1>11 DEF Alike, Beyond
  <1>12. QED
    BY <1>10, <1>11 DEF Alike

\* vacate_for_wrap with begin_wrap: the last column of row r is left vacant.
Almost(s, r) == Local(s, r, {LastCol}) /\ Pairs(s, r, {}) /\ Backed(s, -1) /\ s.top <= s.bottom
LEMMA Vacates ==
  ASSUME NEW s, NEW r \in 0..LastRow, Almost(s, r), NEW u, u = VacateForWrap(s, r, LastCol)
  PROVE  Nearly(u, r) /\ Control(u, s)
  <1> DEFINE lead == [PenCell("blank") EXCEPT !.lead = TRUE]
  <1>1. PICK last \in 0..LastCol : last = LastCol
    BY Sizes
  <1>2. last \in Int /\ last > 0 /\ Cols = last + 1 /\ LastCol \in Int
    BY <1>1, Sizes
  <1>3. PICK v1 : v1 = FreeLeadOf(s, r, last)
    OBVIOUS
  <1>4. PICK S : S = {LastCol} /\ Local(s, r, S) /\ Pairs(s, r, {})
    BY DEF Almost
  <1>5. /\ Local(v1, r, S) /\ Edits(v1, s, r, {last - 1}) /\ Pairs(v1, r, {last})
        /\ KindAt(v1, r, last - 1) # "wide"
    BY <1>2, <1>3, <1>4, LeadFreed
  <1>6. /\ v1 \in State /\ v1.rows \in [0..LastRow -> Row] /\ v1.rows[r] \in Row /\ Fit(v1.rows[r])
        /\ s \in State /\ s.pen \in Nat
    <2>1. v1 \in State /\ s \in State /\ Fit(v1.rows[r])
      BY <1>4, <1>5 DEF Local
    <2>2. s.pen \in 0..1 /\ v1.rows \in [0..LastRow -> Row]
      BY <2>1 DEF State
    <2>3. s.pen \in Nat
      BY <2>2
    <2>4. v1.rows[r] \in Row
      BY <2>2
    <2>5. QED
      BY <2>1, <2>2, <2>3, <2>4
  <1>7. PICK row : row = VacatedRow(v1.rows[r], s.pen)
    OBVIOUS
  <1>8. row \in Row /\ Fit(row) /\ Alike(v1.rows[r], row, {LastCol}) /\ row.cells[LastCol].k = "blank"
    BY <1>6, <1>7, RowVacated
  <1>9. PICK v2 : v2 = Written(v1, r, row)
    OBVIOUS
  <1>10. Local(v2, r, S \cup {LastCol}) /\ Control(v2, v1) /\ RowIs(v2, v1, r, row)
    BY <1>5, <1>6, <1>8, <1>9, RowWritten
  <1>11. PICK v3 : v3 = DamageSpan(v2, r, last, last)
    OBVIOUS
  <1>12. u = DamageSpan(v3, r, last, last)
    <2>1. Put(v1, r, last, lead, s.pen) = [v1 EXCEPT !.rows[r] = PutInRow(v1.rows[r], last, lead, s.pen)]
      BY DEF Put, PutInRow
    <2>2. [Put(v1, r, last, lead, s.pen) EXCEPT !.rows[r].wrapped = TRUE] = v2
      <3>1. PICK p : p = PutInRow(v1.rows[r], last, lead, s.pen)
        OBVIOUS
      <3>2. row = [p EXCEPT !.wrapped = TRUE]
        BY <3>1, <1>1, <1>7 DEF VacatedRow, Wraps
      <3>3. PICK w : w = [v1 EXCEPT !.rows[r] = p]
        OBVIOUS
      <3>4. w = Put(v1, r, last, lead, s.pen)
        BY <2>1, <3>1, <3>3
      <3>5. w.rows = [v1.rows EXCEPT ![r] = p] /\ w.rows[r] = p
        BY <3>3, <1>6 DEF State
      <3>6. [w EXCEPT !.rows[r].wrapped = TRUE] = [w EXCEPT !.rows = [w.rows EXCEPT ![r] = row]]
        BY <3>2, <3>5
      <3>7. [w.rows EXCEPT ![r] = row] = [v1.rows EXCEPT ![r] = row]
        BY <3>5, <1>6
      <3>8. [w EXCEPT !.rows = [v1.rows EXCEPT ![r] = row]] = [v1 EXCEPT !.rows = [v1.rows EXCEPT ![r] = row]]
        BY <3>3, <1>6 DEF State
      <3>9. QED
        BY <3>4, <3>6, <3>7, <3>8, <1>9 DEF Written
    <2>3. v3 = BeginWrap(Put(v1, r, last, lead, s.pen), r)
      BY <2>2, <1>1, <1>11 DEF BeginWrap
    <2>4. QED
      BY <2>3, <1>1, <1>3 DEF VacateForWrap
  <1>13. /\ Local(v3, r, (S \cup {LastCol}) \ (last..last))
         /\ Control(v3, v2) /\ v3.rows = v2.rows
    BY <1>10, <1>11, Damaged
  <1>14. Local(v3, r, {})
    BY <1>1, <1>2, <1>4, <1>13, LocalWithin
  <1>15. Local(u, r, {} \ (last..last)) /\ Control(u, v3) /\ u.rows = v3.rows
    BY <1>12, <1>14, Damaged
  <1>16. Local(u, r, {})
    BY <1>15, LocalWithin
  <1>17. Control(u, s)
    BY <1>5, <1>10, <1>13, <1>15, ControlTrans DEF Edits
  <1>18. u.rows[r] = row /\ \A q \in 0..LastRow : q # r => u.rows[q] = v1.rows[q]
    BY <1>10, <1>13, <1>15 DEF RowIs
  <1>19. Kinded(u, v1, r, last..last)
    BY <1>1, <1>2, <1>8, <1>18 DEF Kinded, KindAt, Alike
  <1>20. KindAt(u, r, last) = "blank"
    BY <1>1, <1>8, <1>18 DEF KindAt
  <1>21. Pairs(u, r, {})
    <2>1. Pairs(v1, r, last..(last + 1))
      BY <1>2, <1>5, PairsWithin
    <2>2. \A c \in (last + 1)..last : Sound(u, r, c)
      BY <1>2
    <2>3. ~(last + 1 < Cols) /\ last <= last
      BY <1>2
    <2>4. QED
      BY <2>1, <2>2, <2>3, <1>5, <1>19, <1>20, Filled
  <1>22. Backed(u, r)
    <2>1. SUFFICES ASSUME Strict(u), NEW q \in 0..LastRow, q # r, Vacant(u, q)
                   PROVE  q < LastRow /\ KindAt(u, q + 1, 0) = "wide"
      BY DEF Backed
    <2>2. Strict(s) /\ Vacant(s, q)
      BY <2>1, <1>5, <1>17, <1>18 DEF Strict, Control, Vacant, Edits
    <2>3. q # -1
      BY Sizes
    <2>4. q < LastRow /\ KindAt(s, q + 1, 0) = "wide"
      BY <2>1, <2>2, <2>3 DEF Almost, Backed
    <2>5. Cols > 2
      BY <2>1 DEF Strict
    <2>6. 0 \notin {last - 1} /\ 0 \notin last..last /\ q + 1 \in 0..LastRow /\ 0 \in 0..LastCol
      BY <2>4, <2>5, <1>2, Sizes
    <2>7. KindAt(u, q + 1, 0) = KindAt(v1, q + 1, 0) /\ KindAt(v1, q + 1, 0) = KindAt(s, q + 1, 0)
      BY <2>6, <1>5, <1>19 DEF Kinded, Edits
    <2>8. QED
      BY <2>4, <2>7
  <1>23. QED
    BY <1>16, <1>17, <1>21, <1>22, LocalElsewhere, PairsElsewhere DEF Almost, Nearly, Control

LEMMA NearlyAlmost == ASSUME NEW s, Nearly(s, -1), NEW r \in 0..LastRow PROVE Almost(s, r)
  <1>1. Local(s, r, {}) /\ Pairs(s, r, {})
    BY LocalElsewhere, PairsElsewhere DEF Nearly
  <1>2. QED
    BY <1>1, LocalWithin DEF Nearly, Almost

\* A parked cursor wraps before a glyph is written.
LEMMA Unparks ==
  ASSUME NEW s, Whole(s), NEW u, u = Unparked(s)
  PROVE  Nearly(u, -1) /\ Steady(u, s) /\ ~u.park
  <1>1. Nearly(s, -1) /\ s.row \in 0..LastRow /\ s.bottom \in 0..LastRow /\ s \in State
    BY DEF Whole, Nearly, Local, State
  <1>2. CASE s.park /\ s.autowrap
    <2>1. PICK v : v = IF WraplineAdvances(s) THEN BeginWrap(s, s.row) ELSE s
      OBVIOUS
    <2>2. u = Wrapline(v)
      BY <1>2, <2>1 DEF Unparked
    <2>3. Nearly(v, -1) /\ Control(v, s) /\ (Vacant(v, s.row) => Vacant(s, s.row))
      <3>1. CASE v = s
        BY <1>1, <3>1 DEF Control
      <3>2. CASE v = BeginWrap(s, s.row)
        <4>1. Local(s, s.row, {})
          BY <1>1, LocalElsewhere DEF Nearly
        <4>2. Local(v, s.row, {}) /\ Edits(v, s, s.row, {})
          BY <1>1, <3>2, <4>1, WrapBegun
        <4>3. Whole(v)
          BY <1>1, <4>2, UntouchedWhole
        <4>4. QED
          BY <1>1, <4>2, <4>3 DEF Whole, Nearly, Edits
      <3>3. QED
        BY <2>1, <3>1, <3>2
    <2>4. Turns(v, TRUE, -1, -1)
      <3>1. SUFFICES ASSUME Strict(v), v.row = v.bottom PROVE ~Vacant(v, v.row)
        BY DEF Turns
      <3>2. Strict(s) /\ s.row = s.bottom /\ v.row = s.row
        BY <2>3, <3>1 DEF Strict, Control
      <3>3. CASE s.bottom < LastRow
        BY <1>2, <2>3, <3>2, <3>3 DEF Whole, Parked
      <3>4. CASE ~(s.bottom < LastRow)
        <4>1. s.row # -1
          BY <1>1, Sizes
        <4>2. ~Vacant(s, s.row)
          BY <1>1, <3>2, <3>4, <4>1 DEF Whole, Backed
        <4>3. QED
          BY <2>3, <3>2, <4>2
      <3>5. QED
        BY <3>3, <3>4
    <2>5. Nearly(u, -1) /\ Steady(u, v) /\ ~u.park
      BY <2>2, <2>3, <2>4, Wrapped
    <2>6. QED
      BY <2>3, <2>5, ControlSteady, SteadyTrans
  <1>3. CASE ~(s.park /\ s.autowrap)
    <2>1. u = Unpark(s)
      BY <1>3 DEF Unparked, Unpark
    <2>2. QED
      BY <1>1, <2>1, ParkLeft
  <1>4. QED
    BY <1>2, <1>3

\* Room was made for a glyph: it fits, and the row above may have been vacated for it.
Roomy(s, width, y) ==
  /\ Nearly(s, y) /\ ~s.park /\ s.col + width <= Cols
  /\ y = -1 \/ (y = s.row - 1 /\ s.col = 0 /\ width = 2)

LEMMA RoomMade ==
  ASSUME NEW s, Nearly(s, -1), ~s.park, NEW width \in {1, 2}, NEW u, u = MadeRoom(s, width)
  PROVE  \E y : Roomy(u, width, y)
  <1>1. s \in State /\ s.row \in 0..LastRow /\ s.col \in 0..LastCol /\ s.bottom \in 0..LastRow
    BY DEF Nearly, Local, State
  <1>2. CASE ~(width = 2 /\ s.col + 1 >= Cols)
    <2>1. u = s
      BY <1>2 DEF MadeRoom
    <2>2. s.col + width <= Cols
      BY <1>1, <1>2, Sizes
    <2>3. Roomy(u, width, -1)
      BY <2>1, <2>2 DEF Roomy
    <2>4. QED
      BY <2>3
  <1>3. CASE width = 2 /\ s.col + 1 >= Cols /\ WraplineAdvances(s)
    <2>1. PICK v : v = VacateForWrap(s, s.row, LastCol)
      OBVIOUS
    <2>2. u = Wrapline(v)
      BY <1>3, <2>1 DEF MadeRoom
    <2>3. Nearly(v, s.row) /\ Control(v, s)
      BY <1>1, <2>1, NearlyAlmost, Vacates
    <2>4. PICK z : z = IF v.row = v.bottom THEN v.row - 1 ELSE v.row
      OBVIOUS
    <2>5. PICK y : y = s.row
      OBVIOUS
    <2>6. Turns(v, TRUE, y, z)
      BY <1>3, <2>3, <2>4, <2>5 DEF Turns, WraplineAdvances, Control
    <2>7. Nearly(u, z) /\ u.col = 0 /\ ~u.park /\ (IsRow(y) => IsAbove(z, u))
      <3>1. Nearly(v, y)
        BY <2>3, <2>5
      <3>2. QED
        BY <2>2, <2>6, <3>1, Wrapped
    <2>8. y # -1
      BY <1>1, <2>5, Sizes
    <2>9. 0 + 2 <= Cols
      BY Sizes
    <2>10. Roomy(u, width, z)
      BY <1>3, <2>7, <2>8, <2>9 DEF Roomy, IsAbove, IsRow
    <2>11. QED
      BY <2>10
  <1>4. CASE width = 2 /\ s.col + 1 >= Cols /\ ~WraplineAdvances(s)
    <2>1. u = Wrapline(s)
      BY <1>4 DEF MadeRoom
    <2>2. Turns(s, TRUE, -1, -1)
      BY <1>4 DEF Turns, WraplineAdvances
    <2>3. Nearly(u, -1) /\ u.col = 0 /\ ~u.park
      BY <2>1, <2>2, Wrapped
    <2>4. 0 + 2 <= Cols
      BY Sizes
    <2>5. Roomy(u, width, -1)
      BY <1>4, <2>3, <2>4 DEF Roomy
    <2>6. QED
      BY <2>5
  <1>5. QED
    BY <1>2, <1>3, <1>4

----------------------------------------------------------------------------
(* Shifting within a row. *)
\* A wide glyph is freed whose spacer has gone, and a spacer whose glyph has.
FreesWide(u, s, r, c) == u = IF KindAt(s, r, c) = "wide" THEN FreeCell(s, r, c) ELSE s
FreesSpacer(u, s, r, c) == u = IF KindAt(s, r, c) = "spacer" THEN FreeCell(s, r, c) ELSE s

LEMMA WideFreed ==
  ASSUME NEW s, NEW r \in 0..LastRow, NEW S, Local(s, r, S), NEW B, Pairs(s, r, B), NEW c \in 0..LastCol,
         NEW u, FreesWide(u, s, r, c)
  PROVE  Local(u, r, S) /\ Edits(u, s, r, {c}) /\ Pairs(u, r, B \cup {c + 1}) /\ KindAt(u, r, c) # "wide"
  <1>1. CASE KindAt(s, r, c) = "wide"
    <2>1. u = FreeCell(s, r, c)
      BY <1>1 DEF FreesWide
    <2>2. Local(u, r, S) /\ Edits(u, s, r, {c}) /\ KindAt(u, r, c) = "blank"
      BY <2>1, Freed
    <2>3. Pairs(u, r, B \cup {c} \cup {e + 1 : e \in {c} \cap (0..LastCol)})
      BY <2>2, PairsKept
    <2>4. Pairs(u, r, B \cup {c, c + 1})
      <3>1. B \cup {c} \cup {e + 1 : e \in {c} \cap (0..LastCol)} = B \cup {c, c + 1}
        BY Sizes
      <3>2. QED
        BY <2>3, <3>1
    <2>5. c \notin B => Sound(u, r, c)
      <3>1. SUFFICES ASSUME c \notin B PROVE Sound(u, r, c)
        OBVIOUS
      <3>2. c \in 0..Cols /\ (c > 0 => c - 1 \in 0..LastCol /\ c - 1 # c)
        BY Sizes
      <3>3. Sound(s, r, c)
        BY <3>1, <3>2 DEF Pairs
      <3>4. c > 0 => KindAt(u, r, c - 1) = KindAt(s, r, c - 1)
        BY <3>2, <2>2 DEF Edits
      <3>5. QED
        BY <1>1, <2>2, <3>3, <3>4 DEF Sound
    <2>6. Pairs(u, r, B \cup {c + 1})
      BY <2>4, <2>5 DEF Pairs
    <2>7. QED
      BY <2>2, <2>6
  <1>2. CASE KindAt(s, r, c) # "wide"
    <2>1. u = s
      BY <1>2 DEF FreesWide
    <2>2. Pairs(s, r, B \cup {c + 1})
      BY PairsWithin
    <2>3. QED
      BY <1>2, <2>1, <2>2, EditsNothing
  <1>3. QED
    BY <1>1, <1>2

LEMMA StrayFreed ==
  ASSUME NEW s, NEW r \in 0..LastRow, NEW S, Local(s, r, S), NEW B, Pairs(s, r, B), NEW c \in 0..LastCol,
         NEW u, FreesSpacer(u, s, r, c)
  PROVE  Local(u, r, S) /\ Edits(u, s, r, {c}) /\ Pairs(u, r, B \cup {c}) /\ KindAt(u, r, c) # "spacer"
  <1>1. CASE KindAt(s, r, c) = "spacer"
    <2>1. u = FreeCell(s, r, c)
      BY <1>1 DEF FreesSpacer
    <2>2. Local(u, r, S) /\ Edits(u, s, r, {c}) /\ KindAt(u, r, c) = "blank"
      BY <2>1, Freed
    <2>3. Pairs(u, r, B \cup {c} \cup {e + 1 : e \in {c} \cap (0..LastCol)})
      BY <2>2, PairsKept
    <2>4. Pairs(u, r, B \cup {c, c + 1})
      <3>1. B \cup {c} \cup {e + 1 : e \in {c} \cap (0..LastCol)} = B \cup {c, c + 1}
        BY Sizes
      <3>2. QED
        BY <2>3, <3>1
    <2>5. c + 1 \notin B => Sound(u, r, c + 1)
      <3>1. SUFFICES ASSUME c + 1 \notin B PROVE Sound(u, r, c + 1)
        OBVIOUS
      <3>2. c + 1 \in 0..Cols /\ c + 1 > 0 /\ (c + 1) - 1 = c /\ (c + 1 < Cols => c + 1 \in 0..LastCol /\ c + 1 # c)
        BY Sizes
      <3>3. Sound(s, r, c + 1)
        BY <3>1, <3>2 DEF Pairs
      <3>4. c + 1 < Cols => KindAt(u, r, c + 1) = KindAt(s, r, c + 1)
        BY <3>2, <2>2 DEF Edits
      <3>5. QED
        BY <1>1, <2>2, <3>2, <3>3, <3>4 DEF Sound
    <2>6. Pairs(u, r, B \cup {c})
      BY <2>4, <2>5 DEF Pairs
    <2>7. QED
      BY <2>2, <2>6
  <1>2. CASE KindAt(s, r, c) # "spacer"
    <2>1. u = s
      BY <1>2 DEF FreesSpacer
    <2>2. Pairs(s, r, B \cup {c})
      BY PairsWithin
    <2>3. QED
      BY <1>2, <2>1, <2>2, EditsNothing
  <1>3. QED
    BY <1>1, <1>2

\* No half of a pair to either side.
LEMMA PairsHealed ==
  ASSUME NEW s, NEW r, NEW B, Pairs(s, r, B), NEW b, b > 0 => KindAt(s, r, b - 1) # "wide", b < Cols => KindAt(s, r, b) # "spacer"
  PROVE  Pairs(s, r, B \ {b})
  BY DEF Pairs, Sound

NoneVacated(u, s) == \A q \in 0..LastRow : Vacant(u, q) => Vacant(s, q)

\* The wraps into row r are void before columns from c on are edited.
LEMMA VoidedFrom ==
  ASSUME NEW s, NEW r \in 0..LastRow, NEW y, Nearly(s, y), NEW b \in BOOLEAN, NEW v, v = VoidIf(b, s, r)
  PROVE  /\ Local(v, r, {}) /\ Edits(v, s, r, {}) /\ Pairs(v, r, {}) /\ Backed(v, y) /\ v.top <= v.bottom
         /\ b /\ y # r - 1 => OpenAbove(v, r)
  <1>1. Local(s, r, {})
    BY LocalElsewhere DEF Nearly
  <1>2. Local(v, r, {}) /\ Edits(v, s, r, {})
    BY <1>1, VoidedIf
  <1>3. Pairs(v, r, {})
    <2>1. Pairs(s, r, {})
      BY PairsElsewhere DEF Nearly
    <2>2. Pairs(v, r, {} \cup {} \cup {c + 1 : c \in {} \cap (0..LastCol)})
      BY <1>2, <2>1, PairsKept
    <2>3. QED
      BY <2>2
  <1>4. Backed(v, y)
    <2>1. KindAt(v, r, 0) = KindAt(s, r, 0)
      BY <1>2, Sizes DEF Edits
    <2>2. QED
      BY <2>1, <1>2, BackedKept DEF Nearly
  <1>5. ASSUME b, y # r - 1 PROVE OpenAbove(v, r)
    <2>1. v = VoidIf(TRUE, s, r)
      BY <1>5
    <2>2. QED
      BY <2>1, <1>1, <1>5, Opened DEF Nearly
  <1>6. v.top <= v.bottom
    BY <1>2 DEF Edits, Control, Nearly
  <1>7. QED
    BY <1>2, <1>3, <1>4, <1>5, <1>6

\* Cells of row r move by shift, within the columns T, to the end of the row.
Within(src, shift, exposed, T) ==
  /\ \A c \in 0..LastCol : c \notin T => c \notin exposed /\ c - shift \notin src
  /\ LastCol \in exposed \/ LastCol - shift \in src
\* What stands in the columns that were exposed, and in those that were moved onto.
Exposes(u, r, exposed) == \A c \in 0..LastCol : c \in exposed => KindAt(u, r, c) = "blank"
Carries(u, s, r, src, shift, exposed) ==
  \A c \in 0..LastCol : c \notin exposed /\ c - shift \in src => KindAt(u, r, c) = KindAt(s, r, c - shift)
LEMMA CellsShifted ==
  ASSUME NEW s, NEW r \in 0..LastRow, Local(s, r, {}), NEW src, NEW shift, NEW exposed,
         Shifts(s.rows[r], src, shift, exposed), NEW T, Within(src, shift, exposed, T),
         NEW u, u = ShiftCells(s, r, src, shift, exposed)
  PROVE  /\ Local(u, r, T) /\ Edits(u, s, r, T) /\ ~Vacant(u, r)
         /\ Exposes(u, r, exposed) /\ Carries(u, s, r, src, shift, exposed)
  <1>1. s.rows[r] \in Row /\ Fit(s.rows[r]) /\ s \in State /\ s.rows \in [0..LastRow -> Row]
    BY DEF Local, State
  <1>2. PICK row : row = Shifted(s.rows[r], src, shift, exposed)
    OBVIOUS
  <1>3. /\ row \in Row /\ Fit(row)
        /\ \A c \in 0..LastCol : c \in exposed => row.cells[c] = Blank
        /\ \A c \in 0..LastCol : c \notin exposed /\ c - shift \in src => row.cells[c] = s.rows[r].cells[c - shift]
        /\ \A c \in 0..LastCol : c \notin exposed /\ c - shift \notin src
             => row.cells[c] = s.rows[r].cells[c] /\ Painted(row, c) = Painted(s.rows[r], c)
    BY <1>1, <1>2, RowShifted
  <1>4. u = Written(s, r, row)
    BY <1>1, <1>2 DEF ShiftCells, Written
  <1>5. Alike(s.rows[r], row, T)
    BY <1>3 DEF Within, Alike
  <1>6. ~row.cells[LastCol].lead
    <2>1. LastCol \in 0..LastCol
      BY Sizes
    <2>2. CASE LastCol \in exposed
      BY <2>1, <2>2, <1>3, BlankTyped
    <2>3. CASE LastCol \notin exposed
      <3>1. LastCol - shift \in src
        BY <2>3 DEF Within
      <3>2. ~s.rows[r].cells[LastCol - shift].lead
        BY <3>1 DEF Shifts
      <3>3. QED
        BY <2>1, <2>3, <3>1, <3>2, <1>3
    <2>4. QED
      BY <2>2, <2>3
  <1>7. Local(u, r, {} \cup T) /\ Edits(u, s, r, T) /\ RowIs(u, s, r, row)
    BY <1>1, <1>3, <1>4, <1>5, <1>6, RowEdited
  <1>8. Local(u, r, T)
    BY <1>7, LocalWithin
  <1>9. QED
    BY <1>3, <1>6, <1>7, <1>8, BlankTyped DEF RowIs, KindAt, Vacant, Exposes, Carries

\* A pair's lead to the left of the columns that moved goes with its spacer.
LEMMA BeforeFreed ==
  ASSUME NEW s, NEW r \in 0..LastRow, NEW S, Local(s, r, S), NEW B, Pairs(s, r, B), NEW c \in 0..LastCol, c \in B,
         NEW u, u = FreeWideAt(s, r, c - 1)
  PROVE  /\ Local(u, r, S) /\ Edits(u, s, r, {c - 1} \cap (0..LastCol)) /\ Pairs(u, r, B)
         /\ c > 0 => KindAt(u, r, c - 1) # "wide"
  <1>1. CASE c = 0
    <2>1. c - 1 \notin 0..LastCol
      BY <1>1, Sizes
    <2>2. u = s
      BY <2>1 DEF FreeWideAt, FreeIf
    <2>3. QED
      BY <1>1, <2>2, EditsNothing
  <1>2. CASE c > 0
    <2>1. PICK e \in 0..LastCol : e = c - 1
      BY <1>2, Sizes
    <2>2. FreesWide(u, s, r, e)
      BY <2>1 DEF FreesWide, FreeWideAt, FreeIf, IsWide, KindAt
    <2>3. /\ Local(u, r, S) /\ Edits(u, s, r, {e}) /\ Pairs(u, r, B \cup {e + 1}) /\ KindAt(u, r, e) # "wide"
      BY <2>2, WideFreed
    <2>4. B \cup {e + 1} = B /\ {c - 1} \cap (0..LastCol) = {e}
      BY <2>1, Sizes
    <2>5. QED
      BY <2>1, <2>3, <2>4
  <1>3. QED
    BY <1>1, <1>2, Sizes

\* insert_chars, where y is the row that was vacated for the pair to come.
LEMMA CharsInserted ==
  ASSUME NEW s, NEW y, Nearly(s, y), y = -1 \/ (y = s.row - 1 /\ s.col = 0), NEW n \in 1..Cols,
         NEW u, u = InsertCharsAt(s, n)
  PROVE  Nearly(u, y) /\ Control(u, s) /\ NoneVacated(u, s)
  <1>1. PICK r \in 0..LastRow : r = s.row
    BY DEF Nearly, Local, State
  <1>2. PICK c \in 0..LastCol : c = s.col
    BY DEF Nearly, Local, State
  <1>3. PICK k \in 1..Cols : k = Least(n, Cols - c)
    <2>1. Least(n, Cols - c) \in 1..Cols
      BY Sizes DEF Least
    <2>2. QED
      BY <2>1
  <1>4. c \in Int /\ k \in Int /\ k >= 1 /\ 0 <= c /\ c + k <= Cols /\ Cols = LastCol + 1 /\ LastCol \in Int /\ LastCol >= 1 /\ 0 \in 0..LastCol
    BY <1>3, Sizes DEF Least
  <1>5. PICK f \in BOOLEAN : f <=> c <= 1
    OBVIOUS
  <1>6. PICK v0 : v0 = VoidIf(c <= 1, s, r)
    OBVIOUS
  <1>7. PICK v1 : v1 = ShiftCells(v0, r, c..(LastCol - k), k, c..(c + k - 1))
    OBVIOUS
  <1>8. PICK v2 : v2 = FreeWideAt(v1, r, c - 1)
    OBVIOUS
  <1>9. PICK v3 : v3 = FreeSpacerAt(v2, r, c + k)
    OBVIOUS
  <1>10. PICK v4 : v4 = FreeWideAt(v3, r, LastCol)
    OBVIOUS
  <1>11. u = DamageSpan(v4, r, c, LastCol)
    <2>1. k # 0
      BY <1>4
    <2>2. u = InsertCells(s, r, c, k)
      BY <2>1, <1>1, <1>2, <1>3 DEF InsertCharsAt
    <2>3. QED
      BY <2>2, <1>6, <1>7, <1>8, <1>9, <1>10 DEF InsertCells
  <1>12. /\ Local(v0, r, {}) /\ Edits(v0, s, r, {}) /\ Pairs(v0, r, {}) /\ Backed(v0, y) /\ v0.top <= v0.bottom
         /\ f /\ y # r - 1 => OpenAbove(v0, r)
    <2>1. v0 = VoidIf(f, s, r)
      BY <1>5, <1>6 DEF VoidIf
    <2>2. QED
      BY <2>1, VoidedFrom
  <1>13. /\ Local(v1, r, c..LastCol) /\ Edits(v1, v0, r, c..LastCol) /\ ~Vacant(v1, r)
         /\ \A e \in 0..LastCol : e \in c..(c + k - 1) => KindAt(v1, r, e) = "blank"
         /\ \A e \in 0..LastCol : e \notin c..(c + k - 1) /\ e - k \in c..(LastCol - k) => KindAt(v1, r, e) = KindAt(v0, r, e - k)
    <2>1. PICK src : src = c..(LastCol - k)
      OBVIOUS
    <2>2. PICK exposed : exposed = c..(c + k - 1)
      OBVIOUS
    <2>3. PICK T : T = c..LastCol
      OBVIOUS
    <2>4. Shifts(v0.rows[r], src, k, exposed)
      <3>1. src \in SUBSET (0..LastCol) /\ (\A e \in src : e \in exposed \/ e - k \in src) /\ LastCol \notin src
        BY <1>4, <2>1, <2>2
      <3>2. \A e \in 0..LastCol : e # LastCol => ~v0.rows[r].cells[e].lead
        BY <1>12 DEF Local, Fit, LeadFits
      <3>3. QED
        BY <1>4, <3>1, <3>2 DEF Shifts
    <2>5. Within(src, k, exposed, T)
      BY <1>4, <2>1, <2>2, <2>3 DEF Within
    <2>6. v1 = ShiftCells(v0, r, src, k, exposed)
      BY <1>7, <2>1, <2>2
    <2>7. /\ Local(v1, r, T) /\ Edits(v1, v0, r, T) /\ ~Vacant(v1, r)
          /\ Exposes(v1, r, exposed) /\ Carries(v1, v0, r, src, k, exposed)
      BY <1>12, <2>4, <2>5, <2>6, CellsShifted
    <2>8. QED
      BY <2>1, <2>2, <2>3, <2>7 DEF Exposes, Carries
  <1>14. Pairs(v1, r, {c, c + k, Cols})
    <2>1. SUFFICES ASSUME NEW q \in 0..LastRow, NEW b \in 0..Cols, q # r \/ b \notin {c, c + k, Cols} PROVE Sound(v1, q, b)
      BY DEF Pairs
    <2>2. (b < Cols => b \in 0..LastCol) /\ (b > 0 => b - 1 \in 0..LastCol) /\ b \in Int
      BY Sizes
    <2>3. CASE q # r \/ b < c
      <3>1. Sound(v0, q, b)
        BY <1>12 DEF Pairs
      <3>2. b < Cols => KindAt(v1, q, b) = KindAt(v0, q, b)
        BY <2>2, <2>3, <1>4, <1>13 DEF Edits
      <3>3. b > 0 => KindAt(v1, q, b - 1) = KindAt(v0, q, b - 1)
        BY <2>2, <2>3, <1>4, <1>13 DEF Edits
      <3>4. QED
        BY <3>1, <3>2, <3>3 DEF Sound
    <2>4. CASE q = r /\ c < b /\ b < c + k
      <3>1. b \in c..(c + k - 1) /\ b - 1 \in c..(c + k - 1) /\ b \in 0..LastCol /\ b - 1 \in 0..LastCol
        BY <2>2, <2>4, <1>4
      <3>2. KindAt(v1, q, b) = "blank" /\ KindAt(v1, q, b - 1) = "blank"
        BY <2>4, <3>1, <1>13
      <3>3. QED
        BY <3>2 DEF Sound
    <2>5. CASE q = r /\ c + k < b /\ b < Cols
      <3>1. PICK e \in 0..Cols : e = b - k
        BY <2>2, <2>5, <1>4
      <3>2. /\ b \in 0..LastCol /\ b - 1 \in 0..LastCol /\ b \notin c..(c + k - 1) /\ b - 1 \notin c..(c + k - 1)
            /\ b - k \in c..(LastCol - k) /\ (b - 1) - k \in c..(LastCol - k) /\ (b - 1) - k = e - 1 /\ e > 0 /\ e < Cols /\ b > 0
        BY <2>2, <2>5, <3>1, <1>4
      <3>3. KindAt(v1, q, b) = KindAt(v0, q, e) /\ KindAt(v1, q, b - 1) = KindAt(v0, q, e - 1)
        BY <2>5, <3>1, <3>2, <1>13
      <3>4. Sound(v0, q, e)
        BY <1>12 DEF Pairs
      <3>5. QED
        BY <2>5, <3>2, <3>3, <3>4 DEF Sound
    <2>6. QED
      BY <2>1, <2>2, <2>3, <2>4, <2>5, <1>4
  <1>15. KindAt(v1, r, c) = "blank" /\ KindAt(v1, r, c + k - 1) = "blank"
    <2>1. c \in c..(c + k - 1) /\ c + k - 1 \in c..(c + k - 1) /\ c + k - 1 \in 0..LastCol
      BY <1>4
    <2>2. QED
      BY <2>1, <1>13
  <1>16. /\ Local(v2, r, c..LastCol) /\ Edits(v2, v1, r, {c - 1} \cap (0..LastCol)) /\ Pairs(v2, r, {c, c + k, Cols})
         /\ c > 0 => KindAt(v2, r, c - 1) # "wide"
    <2>1. PICK B : B = {c, c + k, Cols}
      OBVIOUS
    <2>2. PICK S : S = c..LastCol
      OBVIOUS
    <2>3. Local(v1, r, S) /\ Pairs(v1, r, B) /\ c \in B
      BY <2>1, <2>2, <1>13, <1>14
    <2>4. /\ Local(v2, r, S) /\ Edits(v2, v1, r, {c - 1} \cap (0..LastCol)) /\ Pairs(v2, r, B)
          /\ c > 0 => KindAt(v2, r, c - 1) # "wide"
      BY <2>3, <1>8, BeforeFreed
    <2>5. QED
      BY <2>1, <2>2, <2>4
  <1>17. KindAt(v2, r, c) = "blank" /\ (c + k < Cols => KindAt(v2, r, c + k - 1) = "blank")
    <2>1. c \notin {c - 1} /\ c + k - 1 \notin {c - 1} /\ c + k - 1 \in 0..LastCol
      BY <1>4
    <2>2. QED
      BY <2>1, <1>15, <1>16 DEF Edits
  <1>18. /\ Local(v3, r, c..LastCol) /\ Edits(v3, v2, r, {c + k} \cap (0..LastCol)) /\ Pairs(v3, r, {c, Cols})
    <2>1. CASE c + k = Cols
      <3>1. c + k \notin 0..LastCol /\ {c, c + k, Cols} = {c, Cols}
        BY <2>1, <1>4
      <3>2. v3 = v2
        BY <3>1, <1>9 DEF FreeSpacerAt, FreeIf
      <3>3. QED
        BY <3>1, <3>2, <1>16, EditsNothing
    <2>2. CASE c + k < Cols
      <3>1. PICK e \in 0..LastCol : e = c + k
        BY <2>2, <1>4
      <3>2. FreesSpacer(v3, v2, r, e)
        BY <3>1, <1>9 DEF FreesSpacer, FreeSpacerAt, FreeIf, IsSpacer, KindAt
      <3>3. PICK B : B = {c, c + k, Cols}
        OBVIOUS
      <3>4. /\ Local(v3, r, c..LastCol) /\ Edits(v3, v2, r, {e}) /\ Pairs(v3, r, B \cup {e})
            /\ KindAt(v3, r, e) # "spacer"
        BY <3>2, <3>3, <1>16, StrayFreed
      <3>5. KindAt(v3, r, e - 1) # "wide"
        <4>1. c + k - 1 \in 0..LastCol /\ c + k - 1 = e - 1 /\ e - 1 \notin {e}
          BY <2>2, <3>1, <1>4
        <4>2. KindAt(v3, r, e - 1) = KindAt(v2, r, e - 1)
          BY <3>4, <4>1 DEF Edits
        <4>3. QED
          BY <2>2, <4>1, <4>2, <1>17
      <3>6. Pairs(v3, r, (B \cup {e}) \ {e})
        BY <3>4, <3>5, PairsHealed
      <3>7. ((B \cup {e}) \ {e}) \cap (0..Cols) \subseteq {c, Cols} /\ {c + k} \cap (0..LastCol) = {e}
        BY <3>1, <3>3
      <3>8. QED
        BY <3>4, <3>6, <3>7, PairsWithin
    <2>3. QED
      BY <2>1, <2>2, <1>4
  <1>19. KindAt(v3, r, c) = "blank" /\ (c > 0 => KindAt(v3, r, c - 1) # "wide")
    <2>1. c \notin {c + k} /\ c - 1 \notin {c + k} /\ (c > 0 => c - 1 \in 0..LastCol)
      BY <1>4
    <2>2. QED
      BY <2>1, <1>16, <1>17, <1>18 DEF Edits
  <1>20. FreesWide(v4, v3, r, LastCol)
    BY <1>4, <1>10 DEF FreesWide, FreeWideAt, FreeIf, IsWide, KindAt
  <1>21. /\ Local(v4, r, c..LastCol) /\ Edits(v4, v3, r, {LastCol}) /\ Pairs(v4, r, {c, Cols})
         /\ KindAt(v4, r, LastCol) # "wide"
    <2>1. PICK B : B = {c, Cols}
      OBVIOUS
    <2>2. LastCol \in 0..LastCol
      BY Sizes
    <2>3. /\ Local(v4, r, c..LastCol) /\ Edits(v4, v3, r, {LastCol}) /\ Pairs(v4, r, B \cup {LastCol + 1})
          /\ KindAt(v4, r, LastCol) # "wide"
      BY <2>1, <2>2, <1>18, <1>20, WideFreed
    <2>4. B \cup {LastCol + 1} = {c, Cols}
      BY <2>1, <1>4
    <2>5. QED
      BY <2>3, <2>4
  <1>22. KindAt(v4, r, c) # "spacer" /\ (c > 0 => KindAt(v4, r, c - 1) # "wide")
    <2>1. CASE c = LastCol
      <3>1. v4 = v3
        BY <2>1, <1>19, <1>20 DEF FreesWide
      <3>2. QED
        BY <3>1, <1>19
    <2>2. CASE c # LastCol
      <3>1. c \notin {LastCol} /\ c - 1 \notin {LastCol} /\ (c > 0 => c - 1 \in 0..LastCol)
        BY <2>2, <1>4
      <3>2. QED
        BY <3>1, <1>19, <1>21 DEF Edits
    <2>3. QED
      BY <2>1, <2>2
  <1>23. Pairs(v4, r, {})
    <2>1. PICK B : B = {c, Cols}
      OBVIOUS
    <2>2. PICK b \in 0..Cols : b = Cols
      BY Sizes
    <2>3. b - 1 = LastCol /\ ~(b < Cols)
      BY <2>2, <1>4
    <2>4. Pairs(v4, r, B \ {b})
      <3>1. Pairs(v4, r, B)
        BY <2>1, <1>21
      <3>2. (b > 0 => KindAt(v4, r, b - 1) # "wide") /\ (b < Cols => KindAt(v4, r, b) # "spacer")
        BY <2>3, <1>21
      <3>3. QED
        BY <3>1, <3>2, PairsHealed
    <2>5. Pairs(v4, r, (B \ {b}) \ {c})
      BY <2>4, <1>22, PairsHealed
    <2>6. ((B \ {b}) \ {c}) \cap (0..Cols) \subseteq {}
      BY <2>1, <2>2
    <2>7. QED
      BY <2>5, <2>6, PairsWithin
  <1>24. Local(u, r, {}) /\ Edits(u, v4, r, {}) /\ u.rows = v4.rows
    <2>1. LastCol \in 0..LastCol /\ (c..LastCol) \ (c..LastCol) = {}
      BY Sizes
    <2>2. PICK S : S = c..LastCol
      OBVIOUS
    <2>3. PICK b \in 0..LastCol : b = LastCol
      BY <2>1
    <2>4. Local(v4, r, S) /\ u = DamageSpan(v4, r, c, b)
      BY <2>2, <2>3, <1>11, <1>21
    <2>5. Local(u, r, S \ (c..b)) /\ Edits(u, v4, r, {}) /\ u.rows = v4.rows
      BY <2>4, DamagedEdits
    <2>6. QED
      BY <2>1, <2>2, <2>3, <2>5
  <1>25. Edits(u, v0, r, {c - 1} \cup (c..LastCol))
    <2>1. PICK S : S = {c - 1} \cup (c..LastCol)
      OBVIOUS
    <2>2. Edits(v1, v0, r, S) /\ Edits(v2, v1, r, S) /\ Edits(v3, v2, r, S) /\ Edits(v4, v3, r, S) /\ Edits(u, v4, r, S)
      <3>1. /\ (c..LastCol) \cap (0..LastCol) \subseteq S /\ ({c - 1} \cap (0..LastCol)) \cap (0..LastCol) \subseteq S
            /\ ({c + k} \cap (0..LastCol)) \cap (0..LastCol) \subseteq S /\ {LastCol} \cap (0..LastCol) \subseteq S
            /\ {} \cap (0..LastCol) \subseteq S
        BY <2>1, <1>4
      <3>2. Edits(v1, v0, r, S) /\ Edits(v2, v1, r, S) /\ Edits(v3, v2, r, S)
        BY <3>1, <1>13, <1>16, <1>18, EditsWithin
      <3>3. QED
        BY <3>1, <3>2, <1>21, <1>24, EditsWithin
    <2>3. Edits(v2, v0, r, S \cup S)
      BY <2>2, EditsTrans
    <2>4. Edits(v4, v2, r, S \cup S)
      BY <2>2, EditsTrans
    <2>5. S \cup S = S
      OBVIOUS
    <2>6. Edits(v4, v0, r, S \cup S)
      BY <2>3, <2>4, <2>5, EditsTrans
    <2>7. Edits(u, v0, r, S \cup S)
      BY <2>2, <2>5, <2>6, EditsTrans
    <2>8. QED
      BY <2>1, <2>5, <2>7
  <1>26. Control(u, s) /\ NoneVacated(u, s)
    <2>1. Edits(v0, s, r, {})
      BY <1>12
    <2>2. Control(u, s)
      BY <2>1, <1>25, ControlTrans DEF Edits
    <2>3. QED
      BY <2>1, <2>2, <1>25 DEF Edits, NoneVacated
  <1>27. Backed(u, y)
    <2>1. PICK S : S = {c - 1} \cup (c..LastCol)
      OBVIOUS
    <2>2. Edits(u, v0, r, S) /\ Backed(v0, y)
      BY <2>1, <1>12, <1>25
    <2>3. CASE c >= 2
      <3>1. 0 \in 0..LastCol /\ 0 \notin S
        BY <2>1, <2>3, <1>4
      <3>2. KindAt(u, r, 0) = KindAt(v0, r, 0)
        BY <2>2, <3>1 DEF Edits
      <3>3. QED
        BY <2>2, <3>2, BackedKept
    <2>4. CASE y = r - 1
      BY <2>2, <2>4, BackedKept
    <2>5. CASE c <= 1 /\ y # r - 1
      <3>1. OpenAbove(v0, r)
        BY <2>5, <1>5, <1>12
      <3>2. OpenAbove(u, r)
        BY <2>2, <3>1, OpenKept
      <3>3. QED
        BY <2>2, <3>2, BackedKept
    <2>6. QED
      BY <2>3, <2>4, <2>5, <1>4
  <1>28. Pairs(u, r, {})
    <2>1. \A q \in 0..LastRow, b \in 0..Cols : Sound(u, q, b) <=> Sound(v4, q, b)
      BY <1>24 DEF Sound, KindAt
    <2>2. QED
      BY <2>1, <1>23 DEF Pairs
  <1>29. Local(u, 0, {}) /\ Pairs(u, 0, {}) /\ u.top <= u.bottom
    <2>1. Local(u, 0, {}) /\ Pairs(u, 0, {})
      BY <1>24, <1>28, LocalElsewhere, PairsElsewhere
    <2>2. QED
      BY <2>1, <1>12, <1>25 DEF Edits, Control
  <1>30. QED
    BY <1>26, <1>27, <1>29 DEF Nearly

\* delete_chars.
LEMMA CharsDeleted ==
  ASSUME NEW s, Whole(s), NEW n \in 1..Cols, NEW u, u = DeleteCharsAt(s, n)
  PROVE  Nearly(u, -1) /\ Control(u, s) /\ NoneVacated(u, s)
  <1>1. PICK r \in 0..LastRow : r = s.row
    BY DEF Whole, Local, State
  <1>2. PICK c \in 0..LastCol : c = s.col
    BY DEF Whole, Local, State
  <1>3. PICK k \in 1..Cols : k = Least(n, Cols - c)
    <2>1. Least(n, Cols - c) \in 1..Cols
      BY Sizes DEF Least
    <2>2. QED
      BY <2>1
  <1>4. /\ c \in Int /\ k \in Int /\ k >= 1 /\ 0 <= c /\ c + k <= Cols /\ Cols = LastCol + 1 /\ LastCol \in Int /\ LastCol >= 1
        /\ 0 \in 0..LastCol /\ -k \in Int
    BY <1>3, Sizes DEF Least
  <1>5. PICK f \in BOOLEAN : f <=> c <= 1
    OBVIOUS
  <1>6. PICK w : w = EndWrap(s, r)
    OBVIOUS
  <1>7. PICK v0 : v0 = VoidIf(c <= 1, w, r)
    OBVIOUS
  <1>8. PICK v1 : v1 = ShiftCells(v0, r, (c + k)..LastCol, -k, (Cols - k)..LastCol)
    OBVIOUS
  <1>9. PICK v2 : v2 = FreeWideAt(v1, r, c - 1)
    OBVIOUS
  <1>10. PICK v3 : v3 = FreeSpacerAt(v2, r, c)
    OBVIOUS
  <1>11. u = DamageSpan(v3, r, c, LastCol)
    <2>1. k # 0
      BY <1>4
    <2>2. u = DeleteCells(s, r, c, k)
      BY <2>1, <1>1, <1>2, <1>3 DEF DeleteCharsAt
    <2>3. QED
      BY <2>2, <1>6, <1>7, <1>8, <1>9, <1>10 DEF DeleteCells
  <1>12. Nearly(w, -1) /\ Edits(w, s, r, {}) /\ ~Vacant(w, r)
    <2>1. Local(s, r, {})
      BY LocalElsewhere DEF Whole
    <2>2. Edits(w, s, r, {}) /\ ~Vacant(w, r)
      BY <2>1, <1>6, WrapEnded
    <2>3. Whole(w)
      BY <1>6, WrapEndedWhole
    <2>4. QED
      BY <2>2, <2>3 DEF Whole, Nearly
  <1>13. PICK y : y = -1
    OBVIOUS
  <1>14. /\ Local(v0, r, {}) /\ Edits(v0, w, r, {}) /\ Pairs(v0, r, {}) /\ Backed(v0, y) /\ v0.top <= v0.bottom
         /\ f => OpenAbove(v0, r)
    <2>1. v0 = VoidIf(f, w, r)
      BY <1>5, <1>7 DEF VoidIf
    <2>2. Nearly(w, y)
      BY <1>12, <1>13
    <2>3. /\ Local(v0, r, {}) /\ Edits(v0, w, r, {}) /\ Pairs(v0, r, {}) /\ Backed(v0, y) /\ v0.top <= v0.bottom
          /\ f /\ y # r - 1 => OpenAbove(v0, r)
      BY <2>1, <2>2, VoidedFrom
    <2>4. CASE r = 0
      BY <2>3, <2>4 DEF OpenAbove
    <2>5. CASE r # 0
      <3>1. y # r - 1
        BY <2>5, <1>13
      <3>2. QED
        BY <2>3, <3>1
    <2>6. QED
      BY <2>4, <2>5
  <1>15. /\ Local(v1, r, c..LastCol) /\ Edits(v1, v0, r, c..LastCol)
         /\ \A e \in 0..LastCol : e \in (Cols - k)..LastCol => KindAt(v1, r, e) = "blank"
         /\ \A e \in 0..LastCol : e \notin (Cols - k)..LastCol /\ e + k \in (c + k)..LastCol => KindAt(v1, r, e) = KindAt(v0, r, e + k)
    <2>1. PICK src : src = (c + k)..LastCol
      OBVIOUS
    <2>2. PICK exposed : exposed = (Cols - k)..LastCol
      OBVIOUS
    <2>3. PICK T : T = c..LastCol
      OBVIOUS
    <2>4. PICK shift \in Int : shift = -k
      BY <1>4
    <2>5. Shifts(v0.rows[r], src, shift, exposed)
      <3>1. src \in SUBSET (0..LastCol) /\ (\A e \in src : e \in exposed \/ e - shift \in src)
        BY <1>4, <2>1, <2>2, <2>4
      <3>2. ~Vacant(v0, r)
        BY <1>12, <1>14 DEF Edits
      <3>3. \A e \in 0..LastCol : ~v0.rows[r].cells[e].lead
        BY <3>2, <1>14 DEF Local, Fit, LeadFits, Vacant
      <3>4. QED
        BY <3>1, <3>3, <2>4 DEF Shifts
    <2>6. Within(src, shift, exposed, T)
      BY <1>4, <2>1, <2>2, <2>3, <2>4 DEF Within
    <2>7. v1 = ShiftCells(v0, r, src, shift, exposed)
      BY <1>8, <2>1, <2>2, <2>4
    <2>8. /\ Local(v1, r, T) /\ Edits(v1, v0, r, T) /\ ~Vacant(v1, r)
          /\ Exposes(v1, r, exposed) /\ Carries(v1, v0, r, src, shift, exposed)
      BY <1>14, <2>5, <2>6, <2>7, CellsShifted
    <2>9. \A e \in 0..LastCol : e - shift = e + k
      BY <2>4, <1>4
    <2>10. QED
      BY <2>1, <2>2, <2>3, <2>8, <2>9 DEF Exposes, Carries
  <1>16. Pairs(v1, r, {c})
    <2>1. SUFFICES ASSUME NEW q \in 0..LastRow, NEW b \in 0..Cols, q # r \/ b \notin {c} PROVE Sound(v1, q, b)
      BY DEF Pairs
    <2>2. (b < Cols => b \in 0..LastCol) /\ (b > 0 => b - 1 \in 0..LastCol) /\ b \in Int
      BY Sizes
    <2>3. CASE q # r \/ b < c
      <3>1. Sound(v0, q, b)
        BY <1>14 DEF Pairs
      <3>2. b < Cols => KindAt(v1, q, b) = KindAt(v0, q, b)
        BY <2>2, <2>3, <1>4, <1>15 DEF Edits
      <3>3. b > 0 => KindAt(v1, q, b - 1) = KindAt(v0, q, b - 1)
        BY <2>2, <2>3, <1>4, <1>15 DEF Edits
      <3>4. QED
        BY <3>1, <3>2, <3>3 DEF Sound
    <2>4. CASE q = r /\ c < b /\ b < Cols - k
      <3>1. PICK e \in 0..Cols : e = b + k
        BY <2>2, <2>4, <1>4
      <3>2. /\ b \in 0..LastCol /\ b - 1 \in 0..LastCol /\ b \notin (Cols - k)..LastCol /\ b - 1 \notin (Cols - k)..LastCol
            /\ b + k \in (c + k)..LastCol /\ (b - 1) + k \in (c + k)..LastCol /\ (b - 1) + k = e - 1 /\ e > 0 /\ e < Cols /\ b > 0 /\ b < Cols
        BY <2>2, <2>4, <3>1, <1>4
      <3>3. KindAt(v1, q, b) = KindAt(v0, q, e) /\ KindAt(v1, q, b - 1) = KindAt(v0, q, e - 1)
        BY <2>4, <3>1, <3>2, <1>15
      <3>4. Sound(v0, q, e)
        BY <1>14 DEF Pairs
      <3>5. QED
        BY <2>4, <3>2, <3>3, <3>4 DEF Sound
    <2>5. CASE q = r /\ c < b /\ b = Cols - k
      <3>1. /\ b \in 0..LastCol /\ b - 1 \in 0..LastCol /\ b \in (Cols - k)..LastCol /\ b - 1 \notin (Cols - k)..LastCol
            /\ (b - 1) + k \in (c + k)..LastCol /\ (b - 1) + k = LastCol
        BY <2>2, <2>5, <1>4
      <3>2. KindAt(v1, q, b) = "blank" /\ KindAt(v1, q, b - 1) = KindAt(v0, q, LastCol)
        BY <2>5, <3>1, <1>15
      <3>3. PICK e \in 0..Cols : e = Cols
        BY Sizes
      <3>4. Sound(v0, q, e) /\ e - 1 = LastCol /\ e > 0 /\ ~(e < Cols)
        BY <3>3, <1>4, <1>14 DEF Pairs
      <3>5. KindAt(v0, q, LastCol) # "wide"
        BY <3>4 DEF Sound
      <3>6. QED
        BY <3>2, <3>5 DEF Sound
    <2>6. CASE q = r /\ c < b /\ Cols - k < b
      <3>1. b - 1 \in 0..LastCol /\ b - 1 \in (Cols - k)..LastCol /\ (b < Cols => b \in 0..LastCol /\ b \in (Cols - k)..LastCol)
        BY <2>2, <2>6, <1>4
      <3>2. KindAt(v1, q, b - 1) = "blank" /\ (b < Cols => KindAt(v1, q, b) = "blank")
        BY <2>6, <3>1, <1>15
      <3>3. QED
        BY <3>2 DEF Sound
    <2>7. QED
      BY <2>1, <2>2, <2>3, <2>4, <2>5, <2>6, <1>4
  <1>17. /\ Local(v2, r, c..LastCol) /\ Edits(v2, v1, r, {c - 1} \cap (0..LastCol)) /\ Pairs(v2, r, {c})
         /\ c > 0 => KindAt(v2, r, c - 1) # "wide"
    <2>1. PICK B : B = {c}
      OBVIOUS
    <2>2. PICK S : S = c..LastCol
      OBVIOUS
    <2>3. Local(v1, r, S) /\ Pairs(v1, r, B) /\ c \in B
      BY <2>1, <2>2, <1>15, <1>16
    <2>4. /\ Local(v2, r, S) /\ Edits(v2, v1, r, {c - 1} \cap (0..LastCol)) /\ Pairs(v2, r, B)
          /\ c > 0 => KindAt(v2, r, c - 1) # "wide"
      BY <2>3, <1>9, BeforeFreed
    <2>5. QED
      BY <2>1, <2>2, <2>4
  <1>18. Local(v3, r, c..LastCol) /\ Edits(v3, v2, r, {c}) /\ Pairs(v3, r, {})
    <2>1. FreesSpacer(v3, v2, r, c)
      BY <1>10 DEF FreesSpacer, FreeSpacerAt, FreeIf, IsSpacer, KindAt
    <2>2. PICK B : B = {c}
      OBVIOUS
    <2>3. /\ Local(v3, r, c..LastCol) /\ Edits(v3, v2, r, {c}) /\ Pairs(v3, r, B \cup {c})
          /\ KindAt(v3, r, c) # "spacer"
      BY <2>1, <2>2, <1>17, StrayFreed
    <2>4. c > 0 => KindAt(v3, r, c - 1) # "wide"
      <3>1. c - 1 \notin {c} /\ (c > 0 => c - 1 \in 0..LastCol)
        BY <1>4
      <3>2. QED
        BY <3>1, <2>3, <1>17 DEF Edits
    <2>5. Pairs(v3, r, (B \cup {c}) \ {c})
      BY <2>3, <2>4, PairsHealed
    <2>6. (B \cup {c}) \ {c} = {}
      BY <2>2
    <2>7. QED
      BY <2>3, <2>5, <2>6
  <1>19. Local(u, r, {}) /\ Edits(u, v3, r, {}) /\ u.rows = v3.rows
    <2>1. LastCol \in 0..LastCol /\ (c..LastCol) \ (c..LastCol) = {}
      BY Sizes
    <2>2. PICK S : S = c..LastCol
      OBVIOUS
    <2>3. PICK b \in 0..LastCol : b = LastCol
      BY <2>1
    <2>4. Local(v3, r, S) /\ u = DamageSpan(v3, r, c, b)
      BY <2>2, <2>3, <1>11, <1>18
    <2>5. Local(u, r, S \ (c..b)) /\ Edits(u, v3, r, {}) /\ u.rows = v3.rows
      BY <2>4, DamagedEdits
    <2>6. QED
      BY <2>1, <2>2, <2>3, <2>5
  <1>20. Edits(u, v0, r, {c - 1} \cup (c..LastCol))
    <2>1. PICK S : S = {c - 1} \cup (c..LastCol)
      OBVIOUS
    <2>2. Edits(v1, v0, r, S) /\ Edits(v2, v1, r, S) /\ Edits(v3, v2, r, S) /\ Edits(u, v3, r, S)
      <3>1. /\ (c..LastCol) \cap (0..LastCol) \subseteq S /\ ({c - 1} \cap (0..LastCol)) \cap (0..LastCol) \subseteq S
            /\ {c} \cap (0..LastCol) \subseteq S /\ {} \cap (0..LastCol) \subseteq S
        BY <2>1, <1>4
      <3>2. Edits(v1, v0, r, S) /\ Edits(v2, v1, r, S)
        BY <3>1, <1>15, <1>17, EditsWithin
      <3>3. QED
        BY <3>1, <3>2, <1>18, <1>19, EditsWithin
    <2>3. Edits(v2, v0, r, S \cup S)
      BY <2>2, EditsTrans
    <2>4. Edits(u, v2, r, S \cup S)
      BY <2>2, EditsTrans
    <2>5. S \cup S = S
      OBVIOUS
    <2>6. Edits(u, v0, r, S \cup S)
      BY <2>3, <2>4, <2>5, EditsTrans
    <2>7. QED
      BY <2>1, <2>5, <2>6
  <1>21. Control(u, s) /\ NoneVacated(u, s)
    <2>1. Edits(w, s, r, {}) /\ Edits(v0, w, r, {})
      BY <1>12, <1>14
    <2>2. Control(v0, s)
      BY <2>1, ControlTrans DEF Edits
    <2>3. Control(u, s)
      BY <2>2, <1>20, ControlTrans DEF Edits
    <2>4. QED
      BY <2>1, <2>3, <1>20 DEF Edits, NoneVacated
  <1>22. Backed(u, y)
    <2>1. PICK S : S = {c - 1} \cup (c..LastCol)
      OBVIOUS
    <2>2. Edits(u, v0, r, S) /\ Backed(v0, y)
      BY <2>1, <1>14, <1>20
    <2>3. CASE c >= 2
      <3>1. 0 \in 0..LastCol /\ 0 \notin S
        BY <2>1, <2>3, <1>4
      <3>2. KindAt(u, r, 0) = KindAt(v0, r, 0)
        BY <2>2, <3>1 DEF Edits
      <3>3. QED
        BY <2>2, <3>2, BackedKept
    <2>4. CASE c <= 1
      <3>1. OpenAbove(v0, r)
        BY <2>4, <1>5, <1>14
      <3>2. OpenAbove(u, r)
        BY <2>2, <3>1, OpenKept
      <3>3. QED
        BY <2>2, <3>2, BackedKept
    <2>5. QED
      BY <2>3, <2>4, <1>4
  <1>23. Pairs(u, r, {})
    <2>1. \A q \in 0..LastRow, b \in 0..Cols : Sound(u, q, b) <=> Sound(v3, q, b)
      BY <1>19 DEF Sound, KindAt
    <2>2. QED
      BY <2>1, <1>18 DEF Pairs
  <1>24. Local(u, 0, {}) /\ Pairs(u, 0, {}) /\ u.top <= u.bottom
    <2>1. Local(u, 0, {}) /\ Pairs(u, 0, {})
      BY <1>19, <1>23, LocalElsewhere, PairsElsewhere
    <2>2. QED
      BY <2>1, <1>14, <1>20 DEF Edits, Control
  <1>25. Nearly(u, y)
    BY <1>22, <1>24 DEF Nearly
  <1>26. QED
    BY <1>13, <1>21, <1>25

\* No column was vacated that was not.
LEMMA NoneVacatedWhole ==
  ASSUME NEW s, Whole(s), NEW u, Nearly(u, -1), Control(u, s), NoneVacated(u, s)
  PROVE  Whole(u)
  <1>1. s.row \in 0..LastRow
    BY DEF Whole, Local, State
  <1>2. Parked(u)
    BY <1>1 DEF Whole, Parked, Control, Strict, NoneVacated
  <1>3. QED
    BY <1>2 DEF Whole, Nearly

----------------------------------------------------------------------------
(* Writing. *)
\* The glyph, and the spacer of a wide one, are put on columns that are free of other pairs.
Glyphs(u, s, r, c, width, link) ==
  LET written == Put(s, r, c, PenCell(IF width = 2 THEN "wide" ELSE "glyph"), link)
  IN  u = IF width = 2 /\ c + 1 < Cols THEN Put(written, r, c + 1, PenCell("spacer"), link) ELSE written

LEMMA GlyphsPlaced ==
  ASSUME NEW s, NEW r \in 0..LastRow, Local(s, r, {}), NEW c \in 0..LastCol, NEW width \in {1, 2}, NEW link \in Nat,
         NEW last \in 0..LastCol, last = c + width - 1, Pairs(s, r, c..(last + 1)),
         c > 0 => KindAt(s, r, c - 1) # "wide", last + 1 < Cols => KindAt(s, r, last + 1) # "spacer",
         NEW u, Glyphs(u, s, r, c, width, link)
  PROVE  /\ Local(u, r, c..last) /\ Edits(u, s, r, c..last) /\ Pairs(u, r, {})
         /\ width = 2 => KindAt(u, r, c) = "wide"
         /\ last = LastCol => ~Vacant(u, r)
  <1>1. PICK k \in Kinds : k = IF width = 2 THEN "wide" ELSE "glyph"
    BY DEF Kinds
  <1>2. PICK v : v = Put(s, r, c, PenCell(k), link)
    OBVIOUS
  <1>3. /\ Local(v, r, {} \cup {c}) /\ Edits(v, s, r, {c}) /\ KindAt(v, r, c) = k
        /\ c = LastCol => ~Vacant(v, r)
    <2>1. PICK cell : cell = PenCell(k)
      OBVIOUS
    <2>2. PlainCell(cell) /\ cell.k = k
      BY <2>1, PenCells
    <2>3. PICK S : S = {}
      OBVIOUS
    <2>4. Local(s, r, S) /\ v = Put(s, r, c, cell, link)
      BY <1>2, <2>1, <2>3
    <2>5. Local(v, r, S \cup {c}) /\ Edits(v, s, r, {c}) /\ Shows(v, r, c, cell) /\ (c = LastCol => ~Vacant(v, r))
      BY <2>2, <2>4, PutEdits
    <2>6. QED
      BY <2>2, <2>3, <2>5 DEF Shows
  <1>4. CASE width = 1
    <2>1. u = v /\ k = "glyph" /\ last = c /\ c..last = {c} /\ {} \cup {c} = {c}
      BY <1>1, <1>2, <1>4, Sizes DEF Glyphs
    <2>2. Local(u, r, c..last) /\ Edits(u, s, r, c..last)
      BY <1>3, <2>1
    <2>3. Kinded(u, s, r, c..last)
      BY <2>2, EditsKinded
    <2>4. KindAt(u, r, c) # "spacer" /\ KindAt(u, r, last) # "wide"
      BY <1>3, <2>1
    <2>5. \A x \in (c + 1)..last : Sound(u, r, x)
      BY <2>1, Sizes
    <2>6. c <= last
      BY <2>1, Sizes
    <2>7. Pairs(u, r, {})
      BY <2>3, <2>4, <2>5, <2>6, Filled
    <2>8. QED
      BY <1>3, <1>4, <2>1, <2>2, <2>7
  <1>5. CASE width = 2
    <2>1. PICK d \in 0..LastCol : d = c + 1
      BY <1>5, Sizes
    <2>2. /\ k = "wide" /\ last = d /\ c..last = {c} \cup {d} /\ {} \cup {c} = {c} /\ d > 0 /\ d - 1 = c /\ d < Cols /\ d # c
          /\ "spacer" \in Kinds
      BY <1>1, <1>5, <2>1, Sizes DEF Kinds
    <2>3. u = Put(v, r, d, PenCell("spacer"), link)
      BY <1>1, <1>2, <1>5, <2>1, <2>2 DEF Glyphs
    <2>4. PlainCell(PenCell("spacer")) /\ PenCell("spacer").k = "spacer"
      BY <2>2, PenCells
    <2>5. PICK S : S = {c}
      OBVIOUS
    <2>6. PICK cell : cell = PenCell("spacer")
      OBVIOUS
    <2>7. /\ Local(u, r, S \cup {d}) /\ Edits(u, v, r, {d}) /\ Shows(u, r, d, cell)
          /\ d = LastCol => ~Vacant(u, r)
      <3>1. PlainCell(cell) /\ Local(v, r, S) /\ u = Put(v, r, d, cell, link)
        BY <1>3, <2>2, <2>3, <2>4, <2>5, <2>6
      <3>2. QED
        BY <3>1, PutEdits
    <2>8. Edits(u, s, r, {c} \cup {d})
      BY <1>3, <2>7, EditsTrans
    <2>9. Local(u, r, c..last) /\ Edits(u, s, r, c..last)
      BY <2>2, <2>5, <2>7, <2>8
    <2>10. KindAt(u, r, c) = "wide" /\ KindAt(u, r, d) = "spacer"
      <3>1. c \notin {d}
        BY <2>2
      <3>2. KindAt(u, r, c) = KindAt(v, r, c)
        BY <2>7, <3>1 DEF Edits
      <3>3. QED
        BY <1>3, <2>2, <2>4, <2>6, <2>7, <3>2 DEF Shows
    <2>11. Kinded(u, s, r, c..last)
      BY <2>9, EditsKinded
    <2>12. \A x \in (c + 1)..last : Sound(u, r, x)
      <3>1. \A x \in (c + 1)..last : x = d
        BY <2>1, <2>2
      <3>2. Sound(u, r, d)
        BY <2>2, <2>10 DEF Sound
      <3>3. QED
        BY <3>1, <3>2
    <2>13. c <= last /\ KindAt(u, r, c) # "spacer" /\ KindAt(u, r, last) # "wide"
      BY <2>1, <2>2, <2>10, Sizes
    <2>14. Pairs(u, r, {})
      BY <2>11, <2>12, <2>13, Filled
    <2>15. QED
      BY <2>2, <2>7, <2>9, <2>10, <2>14
  <1>6. QED
    BY <1>4, <1>5

\* The columns are cleared of other pairs, and nothing of the row above waits for another.
Clears(s, r, c, width) ==
  FreeSpacerOf(FreeLeadOf(VoidIf(c <= 1 /\ ~(c = 0 /\ width = 2), s, r), r, c), r, c + width - 1)
Awaits(y, r, c, width) == y = -1 \/ (y = r - 1 /\ c = 0 /\ width = 2)
Free(u, s, r, c, width, last) ==
  /\ Local(u, r, {}) /\ Edits(u, s, r, {c - 1} \cup {last + 1}) /\ Pairs(u, r, c..(last + 1))
  /\ c > 0 => KindAt(u, r, c - 1) # "wide"
  /\ last + 1 < Cols => KindAt(u, r, last + 1) # "spacer"
  /\ u.top <= u.bottom
  /\ c <= 1 => OpenAbove(u, r) \/ (c = 0 /\ width = 2)
Ends(last, c, width) == last = c + width - 1
LEMMA ColumnsCleared ==
  ASSUME NEW s, NEW y, Nearly(s, y), NEW r \in 0..LastRow, NEW c \in 0..LastCol, NEW width \in {1, 2},
         NEW last \in 0..LastCol, Ends(last, c, width), Awaits(y, r, c, width),
         NEW u, u = Clears(s, r, c, width)
  PROVE  Free(u, s, r, c, width, last) /\ Backed(u, y)
  <1>1. last = c + width - 1 /\ (y = -1 \/ (y = r - 1 /\ c = 0 /\ width = 2))
    BY DEF Ends, Awaits
  <1>2. PICK f \in BOOLEAN : f <=> c <= 1 /\ ~(c = 0 /\ width = 2)
    OBVIOUS
  <1>3. PICK v0 : v0 = VoidIf(c <= 1 /\ ~(c = 0 /\ width = 2), s, r)
    OBVIOUS
  <1>4. PICK v1 : v1 = FreeLeadOf(v0, r, c)
    OBVIOUS
  <1>5. u = FreeSpacerOf(v1, r, last)
    BY <1>1, <1>3, <1>4 DEF Clears
  <1>6. /\ Local(v0, r, {}) /\ Edits(v0, s, r, {}) /\ Pairs(v0, r, {}) /\ Backed(v0, y) /\ v0.top <= v0.bottom
        /\ f /\ y # r - 1 => OpenAbove(v0, r)
    <2>1. v0 = VoidIf(f, s, r)
      BY <1>2, <1>3 DEF VoidIf
    <2>2. QED
      BY <2>1, VoidedFrom
  <1>7. /\ Local(v1, r, {}) /\ Edits(v1, v0, r, {c - 1}) /\ Pairs(v1, r, {c})
        /\ c > 0 => KindAt(v1, r, c - 1) # "wide"
    BY <1>4, <1>6, LeadFreed
  <1>8. /\ Local(u, r, {}) /\ Edits(u, v1, r, {last + 1}) /\ Pairs(u, r, {c} \cup {last + 1})
        /\ last + 1 < Cols => KindAt(u, r, last + 1) # "spacer"
    <2>1. PICK B : B = {c}
      OBVIOUS
    <2>2. last + 1 \notin B /\ last + 2 \notin B
      BY <1>1, <2>1, Sizes
    <2>3. Pairs(v1, r, B)
      BY <1>7, <2>1
    <2>4. /\ Local(u, r, {}) /\ Edits(u, v1, r, {last + 1}) /\ Pairs(u, r, B \cup {last + 1})
          /\ last + 1 < Cols => KindAt(u, r, last + 1) # "spacer"
      BY <1>5, <1>7, <2>2, <2>3, SpacerFreed
    <2>5. QED
      BY <2>1, <2>4
  <1>9. Pairs(u, r, c..(last + 1))
    <2>1. PICK B : B = {c} \cup {last + 1}
      OBVIOUS
    <2>2. PICK C : C = c..(last + 1)
      OBVIOUS
    <2>3. B \cap (0..Cols) \subseteq C
      BY <1>1, <2>1, <2>2, Sizes
    <2>4. Pairs(u, r, B)
      BY <1>8, <2>1
    <2>5. Pairs(u, r, C)
      BY <2>3, <2>4, PairsWithin
    <2>6. QED
      BY <2>2, <2>5
  <1>10. Edits(u, s, r, {c - 1} \cup {last + 1}) /\ Edits(u, v0, r, {c - 1} \cup {last + 1})
    <2>1. PICK S : S = {c - 1}
      OBVIOUS
    <2>2. PICK T : T = {last + 1}
      OBVIOUS
    <2>3. Edits(v1, v0, r, S) /\ Edits(u, v1, r, T)
      BY <1>7, <1>8, <2>1, <2>2
    <2>4. Edits(u, v0, r, S \cup T)
      BY <2>3, EditsTrans
    <2>5. Edits(u, s, r, {} \cup (S \cup T))
      BY <1>6, <2>4, EditsTrans
    <2>6. {} \cup (S \cup T) = S \cup T
      OBVIOUS
    <2>7. QED
      BY <2>1, <2>2, <2>4, <2>5, <2>6
  <1>11. c > 0 => KindAt(u, r, c - 1) # "wide"
    <2>1. c - 1 \notin {last + 1} /\ (c > 0 => c - 1 \in 0..LastCol)
      BY <1>1, Sizes
    <2>2. QED
      BY <1>7, <1>8, <2>1 DEF Edits
  <1>12. f => OpenAbove(u, r)
    <2>1. SUFFICES ASSUME f PROVE OpenAbove(u, r)
      OBVIOUS
    <2>2. CASE r = 0
      BY <2>2 DEF OpenAbove
    <2>3. CASE r # 0
      <3>1. y = -1
        BY <1>1, <1>2, <2>1
      <3>2. y # r - 1
        BY <2>3, <3>1
      <3>3. OpenAbove(v0, r)
        BY <1>6, <2>1, <3>2
      <3>4. PICK S : S = {c - 1} \cup {last + 1}
        OBVIOUS
      <3>5. Edits(u, v0, r, S)
        BY <1>10, <3>4
      <3>6. QED
        BY <3>3, <3>5, OpenKept
    <2>4. QED
      BY <2>2, <2>3
  <1>13. Backed(u, y)
    <2>1. PICK S : S = {c - 1} \cup {last + 1}
      OBVIOUS
    <2>2. Edits(u, v0, r, S)
      BY <1>10, <2>1
    <2>3. CASE f
      BY <1>6, <1>12, <2>2, <2>3, BackedKept
    <2>4. CASE ~f
      <3>1. c >= 2 \/ (c = 0 /\ width = 2)
        BY <1>2, <2>4
      <3>2. 0 \notin S /\ 0 \in 0..LastCol
        BY <1>1, <2>1, <3>1, Sizes
      <3>3. KindAt(u, r, 0) = KindAt(v0, r, 0)
        BY <2>2, <3>2 DEF Edits
      <3>4. QED
        BY <1>6, <2>2, <3>3, BackedKept
    <2>5. QED
      BY <2>3, <2>4
  <1>14. u.top <= u.bottom
    BY <1>6, <1>10 DEF Edits, Control
  <1>15. c <= 1 => OpenAbove(u, r) \/ (c = 0 /\ width = 2)
    BY <1>2, <1>12
  <1>16. QED
    BY <1>8, <1>9, <1>10, <1>11, <1>13, <1>14, <1>15 DEF Free

\* The cursor after a glyph: past the last column it parks there.
LEMMA Advanced ==
  ASSUME NEW s, Nearly(s, -1), ~s.park, NEW c \in 1..Cols, c = Cols => ~Vacant(s, s.row), NEW u, u = Advance(s, c)
  PROVE  Whole(u)
  <1>1. s.row \in 0..LastRow /\ s \in State
    BY DEF Nearly, Local, State
  <1>2. PICK col \in 0..LastCol : col = IF c = Cols THEN LastCol ELSE c
    BY Sizes
  <1>3. PICK park \in BOOLEAN : park <=> c = Cols
    OBVIOUS
  <1>4. PICK row \in 0..LastRow : row = s.row
    BY <1>1
  <1>5. u = At(s, row, col, park)
    <2>1. CASE c = Cols
      <3>1. c >= Cols /\ park = TRUE /\ col = LastCol
        BY <2>1, <1>2, <1>3, Sizes
      <3>2. QED
        BY <3>1, <1>1, <1>4 DEF Advance, At, State
    <2>2. CASE c # Cols
      <3>1. ~(c >= Cols) /\ col = c
        BY <2>2, <1>2, Sizes
      <3>2. park = FALSE /\ s.park = FALSE
        BY <2>2, <1>1, <1>3 DEF State
      <3>3. QED
        BY <3>1, <3>2, <1>1, <1>4 DEF Advance, At, State
    <2>3. QED
      BY <2>1, <2>2
  <1>6. PICK y : y = -1
    OBVIOUS
  <1>7. Nearly(s, y)
    BY <1>6
  <1>8. Nearly(u, y) /\ Steady(u, s) /\ u.row = row /\ u.col = col /\ u.park = park /\ u.rows = s.rows
    BY <1>5, <1>7, Placed
  <1>9. Parked(u)
    <2>1. SUFFICES ASSUME u.park PROVE ~Vacant(u, u.row)
      BY DEF Parked
    <2>2. ~Vacant(s, s.row)
      BY <2>1, <1>3, <1>8
    <2>3. QED
      BY <2>2, <1>4, <1>8 DEF Vacant
  <1>10. QED
    BY <1>6, <1>8, <1>9 DEF Whole, Nearly

\* The tail of write_glyph, in the room that was made.
LEMMA GlyphPut ==
  ASSUME NEW s, NEW width \in {1, 2}, NEW y, Roomy(s, width, y), NEW u, u = PutGlyph(s, width)
  PROVE  Whole(u)
  <1>1. Nearly(s, y) /\ ~s.park /\ s \in State
    BY DEF Roomy, Nearly, Local
  <1>2. PICK r \in 0..LastRow : r = s.row
    BY <1>1 DEF State
  <1>3. PICK c \in 0..LastCol : c = s.col
    BY <1>1 DEF State
  <1>4. c + width <= Cols /\ (y = -1 \/ (y = r - 1 /\ c = 0 /\ width = 2))
    BY <1>2, <1>3 DEF Roomy
  <1>5. PICK last \in 0..LastCol : last = c + width - 1
    BY <1>4, Sizes
  <1>6. PICK link \in Nat : link = s.pen
    BY <1>1 DEF State
  <1>7. PICK v2 : v2 = Clears(s, r, c, width)
    OBVIOUS
  <1>8. Free(v2, s, r, c, width, last) /\ Backed(v2, y)
    <2>1. Ends(last, c, width) /\ Awaits(y, r, c, width)
      BY <1>4, <1>5 DEF Ends, Awaits
    <2>2. QED
      BY <2>1, <1>1, <1>7, ColumnsCleared
  <1>9. PICK v4 : Glyphs(v4, v2, r, c, width, link)
    BY DEF Glyphs
  <1>10. PICK v5 : v5 = DamageSpan(v4, r, c, last)
    OBVIOUS
  <1>11. u = Advance(v5, c + width)
    <2>1. v2.pen = s.pen
      BY <1>8 DEF Free, Edits, Control
    <2>2. PICK w : w = IF width = 2 THEN "wide" ELSE "glyph"
      OBVIOUS
    <2>3. PICK written : written = Put(v2, r, c, PenCell(w), link)
      OBVIOUS
    <2>4. v4 = IF width = 2 /\ c + 1 < Cols THEN Put(written, r, c + 1, PenCell("spacer"), link) ELSE written
      BY <1>9, <2>2, <2>3 DEF Glyphs
    <2>5. QED
      BY <1>2, <1>3, <1>5, <1>6, <1>7, <1>10, <2>2, <2>3, <2>4 DEF PutGlyph, Clears
  <1>12. /\ Local(v2, r, {}) /\ Edits(v2, s, r, {c - 1} \cup {last + 1}) /\ Pairs(v2, r, c..(last + 1))
         /\ c > 0 => KindAt(v2, r, c - 1) # "wide"
         /\ last + 1 < Cols => KindAt(v2, r, last + 1) # "spacer"
         /\ Backed(v2, y) /\ v2.top <= v2.bottom
         /\ c <= 1 => OpenAbove(v2, r) \/ (c = 0 /\ width = 2)
    BY <1>8 DEF Free
  <1>13. /\ Local(v4, r, c..last) /\ Edits(v4, v2, r, c..last) /\ Pairs(v4, r, {})
         /\ width = 2 => KindAt(v4, r, c) = "wide"
         /\ last = LastCol => ~Vacant(v4, r)
    BY <1>5, <1>9, <1>12, GlyphsPlaced
  <1>14. Local(v5, r, {}) /\ Edits(v5, v4, r, {}) /\ v5.rows = v4.rows
    <2>1. PICK S : S = c..last
      OBVIOUS
    <2>2. Local(v4, r, S)
      BY <2>1, <1>13
    <2>3. Local(v5, r, S \ (c..last)) /\ Edits(v5, v4, r, {}) /\ v5.rows = v4.rows
      BY <2>2, <1>10, DamagedEdits
    <2>4. S \ (c..last) = {}
      BY <2>1
    <2>5. QED
      BY <2>3, <2>4
  <1>15. Pairs(v5, r, {})
    <2>1. \A q \in 0..LastRow, b \in 0..Cols : Sound(v5, q, b) <=> Sound(v4, q, b)
      BY <1>14 DEF Sound, KindAt
    <2>2. QED
      BY <2>1, <1>13 DEF Pairs
  <1>16. PICK S : S = c..last
    OBVIOUS
  <1>17. Edits(v5, v2, r, S)
    <2>1. Edits(v4, v2, r, S)
      BY <1>13, <1>16
    <2>2. Edits(v5, v2, r, S \cup {})
      BY <2>1, <1>14, EditsTrans
    <2>3. S \cup {} = S
      OBVIOUS
    <2>4. QED
      BY <2>2, <2>3
  <1>18. c = 0 /\ width = 2 => KindAt(v5, r, 0) = "wide"
    BY <1>13, <1>14 DEF KindAt
  <1>19. Backed(v5, y)
    <2>1. CASE c >= 2
      <3>1. 0 \notin S /\ 0 \in 0..LastCol
        BY <1>16, <2>1, Sizes
      <3>2. KindAt(v5, r, 0) = KindAt(v2, r, 0)
        BY <1>17, <3>1 DEF Edits
      <3>3. QED
        BY <1>12, <1>17, <3>2, BackedKept
    <2>2. CASE c = 0 /\ width = 2
      BY <1>12, <1>17, <1>18, <2>2, BackedKept
    <2>3. CASE OpenAbove(v2, r)
      <3>1. OpenAbove(v5, r)
        BY <1>17, <2>3, OpenKept
      <3>2. QED
        BY <1>12, <1>17, <3>1, BackedKept
    <2>4. QED
      BY <1>12, <2>1, <2>2, <2>3, Sizes
  <1>20. PICK z : z = -1
    OBVIOUS
  <1>21. Backed(v5, z)
    <2>1. CASE y = -1
      BY <1>19, <1>20, <2>1
    <2>2. CASE y = r - 1 /\ c = 0 /\ width = 2
      <3>1. SUFFICES ASSUME Strict(v5), NEW q \in 0..LastRow, Vacant(v5, q) PROVE q < LastRow /\ KindAt(v5, q + 1, 0) = "wide"
        BY DEF Backed
      <3>2. CASE q = y
        <4>1. q + 1 = r /\ q < LastRow
          BY <2>2, <3>2, Sizes
        <4>2. QED
          BY <1>18, <2>2, <4>1
      <3>3. CASE q # y
        BY <1>19, <3>1, <3>3 DEF Backed
      <3>4. QED
        BY <3>2, <3>3
    <2>3. QED
      BY <1>4, <2>1, <2>2
  <1>22. Control(v5, s)
    <2>1. Control(v5, v2) /\ Control(v2, s)
      BY <1>12, <1>17 DEF Edits
    <2>2. QED
      BY <2>1, ControlTrans
  <1>23. Nearly(v5, z)
    <2>1. Local(v5, 0, {}) /\ Pairs(v5, 0, {})
      BY <1>14, <1>15, LocalElsewhere, PairsElsewhere
    <2>2. v5.top <= v5.bottom
      BY <1>12, <1>17 DEF Edits, Control
    <2>3. QED
      BY <1>21, <2>1, <2>2 DEF Nearly
  <1>24. Nearly(v5, -1) /\ ~v5.park
    BY <1>1, <1>20, <1>22, <1>23 DEF Control
  <1>25. PICK d \in 1..Cols : d = c + width
    BY <1>4, Sizes
  <1>26. d = Cols => ~Vacant(v5, v5.row)
    <2>1. d = Cols => last = LastCol
      BY <1>5, <1>25, Sizes
    <2>2. v5.row = r
      BY <1>2, <1>22 DEF Control
    <2>3. QED
      BY <1>13, <1>14, <2>1, <2>2 DEF Vacant
  <1>27. u = Advance(v5, d)
    BY <1>11, <1>25
  <1>28. QED
    BY <1>24, <1>26, <1>27, Advanced

LEMMA RoomFor ==
  ASSUME NEW s, Nearly(s, -1), ~s.park, NEW width \in {1, 2}, NEW u, u = WithRoom(s, width)
  PROVE  \E y : Roomy(u, width, y)
  <1>1. PICK m : m = MadeRoom(s, width)
    OBVIOUS
  <1>2. PICK y : Roomy(m, width, y)
    BY <1>1, RoomMade
  <1>3. u = m \/ u = InsertCharsAt(m, width)
    BY <1>1 DEF WithRoom
  <1>4. CASE u = m
    BY <1>2, <1>4
  <1>5. CASE u = InsertCharsAt(m, width)
    <2>1. PICK n \in 1..Cols : n = width
      BY Sizes
    <2>2. Nearly(m, y) /\ (y = -1 \/ (y = m.row - 1 /\ m.col = 0)) /\ u = InsertCharsAt(m, n)
      BY <1>2, <1>5, <2>1 DEF Roomy
    <2>3. Nearly(u, y) /\ Control(u, m) /\ NoneVacated(u, m)
      BY <2>2, CharsInserted
    <2>4. Roomy(u, width, y)
      BY <1>2, <2>3 DEF Roomy, Control
    <2>5. QED
      BY <2>4
  <1>6. QED
    BY <1>3, <1>4, <1>5

\* write_glyph.
LEMMA GlyphWritten ==
  ASSUME NEW s, Whole(s), NEW width \in {1, 2}, NEW u, u = WriteGlyph(s, width)
  PROVE  Whole(u)
  <1>1. PICK v : v = Unparked(s)
    OBVIOUS
  <1>2. Nearly(v, -1) /\ ~v.park
    BY <1>1, Unparks
  <1>3. CASE Dropped(v, width)
    <2>1. u = v
      BY <1>1, <1>3 DEF WriteGlyph, WriteUnparked
    <2>2. QED
      BY <1>2, <2>1, NearlyWhole
  <1>4. CASE ~Dropped(v, width)
    <2>1. PICK w : w = WithRoom(v, width)
      OBVIOUS
    <2>2. u = PutGlyph(w, width)
      BY <1>1, <1>4, <2>1 DEF WriteGlyph, WriteUnparked
    <2>3. PICK y : Roomy(w, width, y)
      BY <1>2, <2>1, RoomFor
    <2>4. QED
      BY <2>2, <2>3, GlyphPut
  <1>5. QED
    BY <1>3, <1>4

\* insert_chars and delete_chars.
LEMMA InsertsWhole ==
  ASSUME NEW s, Whole(s), NEW n \in 1..Cols, NEW u, u = InsertCharsAt(s, n)
  PROVE  Whole(u)
  <1>1. PICK y : y = -1
    OBVIOUS
  <1>2. Nearly(s, y) /\ (y = -1 \/ (y = s.row - 1 /\ s.col = 0))
    BY <1>1 DEF Whole, Nearly
  <1>3. Nearly(u, y) /\ Control(u, s) /\ NoneVacated(u, s)
    BY <1>2, CharsInserted
  <1>4. QED
    BY <1>1, <1>3, NoneVacatedWhole

LEMMA DeletesWhole ==
  ASSUME NEW s, Whole(s), NEW n \in 1..Cols, NEW u, u = DeleteCharsAt(s, n)
  PROVE  Whole(u)
  BY CharsDeleted, NoneVacatedWhole

----------------------------------------------------------------------------
(* Clusters. *)
\* With clustering on nothing is said of vacated columns.
LEMMA Loose ==
  ASSUME NEW s, s.cluster, NEW r \in 0..LastRow, Local(s, r, {}), Pairs(s, r, {}), s.top <= s.bottom
  PROVE  Whole(s) /\ Nearly(s, -1)
  <1>1. Local(s, 0, {}) /\ Pairs(s, 0, {})
    BY LocalElsewhere, PairsElsewhere
  <1>2. QED
    BY <1>1 DEF Whole, Nearly, Backed, Parked, Strict

LEMMA LinkTyped ==
  ASSUME NEW row \in Row, NEW c
  PROVE  LinkAt(row, c) \in Nat /\ MarksAt(row, c) \in Nat
  <1>1. row.links \in SideMap /\ row.marks \in SideMap
    BY DEF Row
  <1>2. ASSUME NEW m \in SideMap, c \in DOMAIN m PROVE m[c] \in Nat
    BY <1>2 DEF SideMap
  <1>3. QED
    BY <1>1, <1>2 DEF LinkAt, MarksAt

\* A mark joins the cell.
Marks(s, r, c) == [s EXCEPT !.rows[r] = PushMark(@, c)]
LEMMA Marked ==
  ASSUME NEW s, NEW r \in 0..LastRow, NEW S, Local(s, r, S), NEW c \in 0..LastCol, NEW u, u = Marks(s, r, c)
  PROVE  Local(u, r, S \cup {c}) /\ Edits(u, s, r, {})
  <1>1. s.rows[r] \in Row /\ Fit(s.rows[r]) /\ s \in State /\ s.rows \in [0..LastRow -> Row]
    BY DEF Local, State
  <1>2. PICK row : row = PushMark(s.rows[r], c)
    OBVIOUS
  <1>3. /\ row \in Row /\ Fit(row) /\ Beyond(s.rows[r], row, {c})
        /\ row.cells[c].k = s.rows[r].cells[c].k /\ row.cells[c].lead = s.rows[r].cells[c].lead
    BY <1>1, <1>2, RowMarked
  <1>4. u = Written(s, r, row)
    BY <1>1, <1>2 DEF Marks, Written
  <1>5. Alike(s.rows[r], row, {c})
    BY <1>3 DEF Alike, Beyond
  <1>6. row.cells[LastCol].lead => s.rows[r].cells[LastCol].lead
    BY <1>3, Sizes DEF Beyond
  <1>7. Local(u, r, S \cup {c}) /\ Edits(u, s, r, {c}) /\ RowIs(u, s, r, row)
    BY <1>3, <1>4, <1>5, <1>6, RowEdited
  <1>8. \A q \in 0..LastRow, d \in 0..LastCol : KindAt(u, q, d) = KindAt(s, q, d)
    BY <1>3, <1>7 DEF Edits, RowIs, KindAt
  <1>9. QED
    BY <1>7, <1>8 DEF Edits

\* A glyph changes its width.
Widened(s, r, c, k) == [s EXCEPT !.rows[r].cells[c].k = k]
LEMMA Widens ==
  ASSUME NEW s, NEW r \in 0..LastRow, NEW S, Local(s, r, S), NEW c \in 0..LastCol, KindAt(s, r, c) # "blank",
         NEW k \in Kinds, NEW u, u = Widened(s, r, c, k)
  PROVE  Local(u, r, S \cup {c}) /\ Edits(u, s, r, {c}) /\ KindAt(u, r, c) = k
  <1>1. s.rows[r] \in Row /\ Fit(s.rows[r]) /\ s \in State /\ s.rows \in [0..LastRow -> Row] /\ s.rows[r].cells[c].k # "blank"
    BY DEF Local, State, KindAt
  <1>2. PICK row : row = Rewidened(s.rows[r], c, k)
    OBVIOUS
  <1>3. /\ row \in Row /\ Fit(row) /\ Beyond(s.rows[r], row, {c}) /\ row.cells[c].k = k /\ ~row.cells[c].lead
    <2>1. Inked(s.rows[r], c)
      BY <1>1 DEF Inked
    <2>2. row \in Row /\ Fit(row) /\ Beyond(s.rows[r], row, {c}) /\ Reads(row, c, k)
      BY <2>1, <1>1, <1>2, RowRewidened
    <2>3. QED
      BY <2>2 DEF Reads
  <1>4. u = Written(s, r, row)
    BY <1>1, <1>2 DEF Widened, Rewidened, Written
  <1>5. Alike(s.rows[r], row, {c})
    BY <1>3 DEF Alike, Beyond
  <1>6. row.cells[LastCol].lead => s.rows[r].cells[LastCol].lead
    BY <1>3, Sizes DEF Beyond
  <1>7. Local(u, r, S \cup {c}) /\ Edits(u, s, r, {c}) /\ RowIs(u, s, r, row)
    BY <1>3, <1>4, <1>5, <1>6, RowEdited
  <1>8. QED
    BY <1>3, <1>7 DEF RowIs, KindAt

LEMMA MarkedPairs ==
  ASSUME NEW s, NEW u, NEW r, Pairs(s, r, {}), Edits(u, s, r, {})
  PROVE  Pairs(u, r, {})
  <1>1. Pairs(u, r, {} \cup {} \cup {c + 1 : c \in {} \cap (0..LastCol)})
    BY PairsKept
  <1>2. {} \cup {} \cup {c + 1 : c \in {} \cap (0..LastCol)} = {}
    OBVIOUS
  <1>3. QED
    BY <1>1, <1>2

\* The cluster before the cursor, whose base is no spacer.
LEMMA ClusterBase ==
  ASSUME NEW s, Whole(s), NEW c \in ClusterCol(s)
  PROVE  c \in 0..LastCol /\ KindAt(s, s.row, c) # "spacer"
  <1>1. s.row \in 0..LastRow /\ s.col \in 0..LastCol
    BY DEF Whole, Local, State
  <1>2. PICK d : d = IF s.park THEN s.col ELSE s.col - 1
    OBVIOUS
  <1>3. d >= 0 /\ d \in 0..LastCol
    BY <1>1, <1>2, Sizes DEF ClusterCol
  <1>4. /\ IsSpacer(s, s.row, d) /\ d > 0 => c = d - 1
        /\ ~(IsSpacer(s, s.row, d) /\ d > 0) => c = d
    BY <1>2, <1>3 DEF ClusterCol
  <1>5. PICK b \in 0..Cols : b = d
    BY <1>3, Sizes
  <1>6. Sound(s, s.row, b)
    BY <1>1 DEF Whole, Pairs
  <1>7. KindAt(s, s.row, d) = "spacer" => d > 0 /\ KindAt(s, s.row, d - 1) = "wide"
    BY <1>3, <1>5, <1>6, Sizes DEF Sound
  <1>8. CASE IsSpacer(s, s.row, d) /\ d > 0
    <2>1. c = d - 1
      BY <1>4, <1>8
    <2>2. KindAt(s, s.row, d) = "spacer"
      BY <1>8 DEF IsSpacer, KindAt
    <2>3. KindAt(s, s.row, c) = "wide"
      BY <2>1, <2>2, <1>7
    <2>4. QED
      BY <2>1, <2>3, <1>3, <1>8, Sizes
  <1>9. CASE ~(IsSpacer(s, s.row, d) /\ d > 0)
    <2>1. c = d
      BY <1>4, <1>9
    <2>2. QED
      BY <2>1, <1>3, <1>7, <1>9 DEF IsSpacer, KindAt
  <1>10. QED
    BY <1>8, <1>9

\* push_combining.
LEMMA Combines ==
  ASSUME NEW s, Whole(s), NEW u, u = PushCombining(s)
  PROVE  Whole(u)
  <1>1. s.row \in 0..LastRow
    BY DEF Whole, Local, State
  <1>2. PICK c \in 0..LastCol : c = IF ClusterCol(s) = {} THEN 0 ELSE CHOOSE x \in ClusterCol(s) : TRUE
    <2>1. CASE ClusterCol(s) = {}
      BY <2>1, Sizes
    <2>2. CASE ClusterCol(s) # {}
      <3>1. (CHOOSE x \in ClusterCol(s) : TRUE) \in ClusterCol(s)
        BY <2>2
      <3>2. QED
        BY <2>2, <3>1, ClusterBase
    <2>3. QED
      BY <2>1, <2>2
  <1>3. PICK r \in 0..LastRow : r = s.row
    BY <1>1
  <1>4. PICK v : v = Marks(s, r, c)
    OBVIOUS
  <1>5. u = DamageSpan(v, r, c, c)
    BY <1>2, <1>3, <1>4 DEF PushCombining, Marks
  <1>6. Local(v, r, {} \cup {c}) /\ Edits(v, s, r, {})
    <2>1. Local(s, r, {})
      BY LocalElsewhere DEF Whole
    <2>2. QED
      BY <2>1, <1>4, Marked
  <1>7. Local(u, r, ({} \cup {c}) \ (c..c)) /\ Edits(u, v, r, {})
    BY <1>5, <1>6, DamagedEdits
  <1>8. Local(u, r, {})
    <2>1. ({} \cup {c}) \ (c..c) = {}
      OBVIOUS
    <2>2. QED
      BY <1>7, <2>1
  <1>9. Edits(u, s, r, {})
    <2>1. Edits(u, s, r, {} \cup {})
      BY <1>6, <1>7, EditsTrans
    <2>2. {} \cup {} = {}
      OBVIOUS
    <2>3. QED
      BY <2>1, <2>2
  <1>10. QED
    BY <1>8, <1>9, UntouchedWhole

\* The cursor is placed while a cell is not yet damaged.
LEMMA Stands ==
  ASSUME NEW s, NEW r, NEW S, Local(s, r, S), NEW row \in 0..LastRow, NEW col \in 0..LastCol, NEW park \in BOOLEAN,
         NEW u, u = At(s, row, col, park)
  PROVE  Local(u, r, S) /\ Steady(u, s) /\ u.rows = s.rows
  <1>1. s \in State
    BY DEF Local
  <1>2. u \in State /\ u.rows = s.rows /\ u.view = s.view /\ u.dmg = s.dmg /\ Steady(u, s)
    BY <1>1 DEF At, State, Steady
  <1>3. QED
    BY <1>2 DEF Local, Told

LEMMA StandsAfter ==
  ASSUME NEW s, NEW r, NEW S, Local(s, r, S), NEW c \in 1..Cols, NEW u, u = Advance(s, c)
  PROVE  Local(u, r, S) /\ Steady(u, s) /\ u.rows = s.rows
  <1>1. s \in State /\ s.row \in 0..LastRow /\ s.park \in BOOLEAN
    BY DEF Local, State
  <1>2. PICK row \in 0..LastRow : row = s.row
    BY <1>1
  <1>3. CASE c = Cols
    <2>1. PICK col \in 0..LastCol : col = LastCol
      BY Sizes
    <2>2. PICK park \in BOOLEAN : park = TRUE
      OBVIOUS
    <2>3. c >= Cols
      BY <1>3, Sizes
    <2>4. u = At(s, row, col, park)
      BY <1>1, <1>2, <2>1, <2>2, <2>3 DEF Advance, At, State
    <2>5. QED
      BY <2>4, Stands
  <1>4. CASE c # Cols
    <2>1. PICK col \in 0..LastCol : col = c /\ ~(c >= Cols)
      BY <1>4, Sizes
    <2>2. PICK park \in BOOLEAN : park = s.park
      BY <1>1
    <2>3. u = At(s, row, col, park)
      BY <1>1, <1>2, <2>1, <2>2 DEF Advance, At, State
    <2>4. QED
      BY <2>3, Stands
  <1>5. QED
    BY <1>3, <1>4

\* A cluster is being edited: the column c of row r is still to be damaged.
Touched(s, r, c) == Local(s, r, {c}) /\ Pairs(s, r, {}) /\ s.cluster /\ s.top <= s.bottom
LEMMA TouchedWhole ==
  ASSUME NEW s, NEW r \in 0..LastRow, NEW c \in 0..LastCol, Touched(s, r, c), NEW u, u = DamageSpan(s, r, c, c)
  PROVE  Whole(u)
  <1>1. PICK S : S = {c}
    OBVIOUS
  <1>2. Local(s, r, S)
    BY <1>1 DEF Touched
  <1>3. Local(u, r, S \ (c..c)) /\ Edits(u, s, r, {})
    BY <1>2, DamagedEdits
  <1>4. S \ (c..c) = {}
    BY <1>1
  <1>5. Pairs(u, r, {})
    BY <1>3, MarkedPairs DEF Touched
  <1>6. u.cluster /\ u.top <= u.bottom
    BY <1>3 DEF Edits, Control, Touched
  <1>7. QED
    BY <1>3, <1>4, <1>5, <1>6, Loose

\* demote_cluster_to_narrow.
LEMMA Demoted ==
  ASSUME NEW s, NEW r \in 0..LastRow, NEW c \in 0..LastCol, Touched(s, r, c), KindAt(s, r, c) = "wide",
         NEW u, u = Demote(s, r, c)
  PROVE  Touched(u, r, c)
  <1>1. PICK S : S = {c} /\ Local(s, r, S)
    BY DEF Touched
  <1>2. s \in State /\ s.rows \in [0..LastRow -> Row] /\ s.row \in 0..LastRow
    BY <1>1 DEF Local, State
  <1>3. PICK d \in 0..LastCol : d = c + 1 /\ KindAt(s, r, d) = "spacer"
    <2>1. PICK b \in 0..Cols : b = c + 1
      BY Sizes
    <2>2. Sound(s, r, b)
      BY DEF Touched, Pairs
    <2>3. b > 0 /\ b - 1 = c
      BY <2>1, Sizes
    <2>4. b < Cols /\ KindAt(s, r, b) = "spacer"
      BY <2>2, <2>3 DEF Sound
    <2>5. QED
      BY <2>1, <2>4, Sizes
  <1>4. c > 0 => KindAt(s, r, c - 1) # "wide"
    <2>1. PICK b \in 0..Cols : b = c
      BY Sizes
    <2>2. Sound(s, r, b)
      BY DEF Touched, Pairs
    <2>3. QED
      BY <2>1, <2>2 DEF Sound
  <1>5. d + 1 < Cols => KindAt(s, r, d + 1) # "spacer"
    <2>1. PICK b \in 0..Cols : b = d + 1
      BY Sizes
    <2>2. Sound(s, r, b) /\ b > 0 /\ b - 1 = d
      BY <2>1, Sizes DEF Touched, Pairs
    <2>3. QED
      BY <2>1, <2>2, <1>3 DEF Sound
  <1>6. PICK w : w = Widened(s, r, c, "glyph")
    OBVIOUS
  <1>7. Local(w, r, S \cup {c}) /\ Edits(w, s, r, {c}) /\ KindAt(w, r, c) = "glyph"
    <2>1. PICK k \in Kinds : k = "glyph"
      BY DEF Kinds
    <2>2. KindAt(s, r, c) # "blank" /\ w = Widened(s, r, c, k)
      BY <2>1, <1>6
    <2>3. QED
      BY <2>1, <2>2, <1>1, Widens
  <1>8. PICK v : v = At(w, s.row, d, FALSE)
    OBVIOUS
  <1>9. Local(v, r, S \cup {c}) /\ Steady(v, w) /\ v.rows = w.rows
    <2>1. PICK park \in BOOLEAN : park = FALSE
      OBVIOUS
    <2>2. PICK row \in 0..LastRow : row = s.row
      BY <1>2
    <2>3. v = At(w, row, d, park)
      BY <1>8, <2>1, <2>2
    <2>4. QED
      BY <2>3, <1>7, Stands
  <1>10. PICK x : x = FreeCell(v, r, d)
    OBVIOUS
  <1>11. u = DamageSpan(x, r, c, d)
    <2>1. PICK rows : rows = [s.rows EXCEPT ![r].cells[c].k = "glyph"]
      OBVIOUS
    <2>2. w = [s EXCEPT !.rows = rows]
      BY <2>1, <1>2, <1>6 DEF Widened, State
    <2>3. v = [s EXCEPT !.rows = rows, !.park = FALSE, !.col = d]
      BY <2>2, <1>2, <1>8 DEF At, State
    <2>4. v = [s EXCEPT !.rows[r].cells[c].k = "glyph", !.park = FALSE, !.col = d]
      BY <2>1, <2>3, <1>2 DEF State
    <2>5. Least(c + 1, LastCol) = d /\ c + 1 < Cols /\ d = c + 1
      BY <1>3, Sizes DEF Least
    <2>6. QED
      BY <2>4, <2>5, <1>10 DEF Demote, FreeIf
  <1>12. Local(x, r, S \cup {c}) /\ Edits(x, v, r, {d}) /\ KindAt(x, r, d) = "blank"
    BY <1>9, <1>10, Freed
  <1>13. d # c /\ c < d
    BY <1>3
  <1>14. KindAt(x, r, c) = "glyph"
    BY <1>7, <1>9, <1>12, <1>13 DEF Edits, KindAt
  <1>15. Kinded(x, s, r, c..d)
    <2>1. \A e \in 0..LastCol : e \notin c..d => e \notin {c} /\ e \notin {d}
      BY <1>3
    <2>2. QED
      BY <2>1, <1>7, <1>9, <1>12 DEF Edits, Kinded, KindAt
  <1>16. Pairs(x, r, {})
    <2>1. Pairs(s, r, c..(d + 1))
      BY PairsWithin DEF Touched
    <2>2. \A e \in (c + 1)..d : Sound(x, r, e)
      <3>1. \A e \in (c + 1)..d : e = d
        BY <1>3
      <3>2. d - 1 = c
        BY <1>3
      <3>3. Sound(x, r, d)
        BY <3>2, <1>12, <1>14 DEF Sound
      <3>4. QED
        BY <3>1, <3>3
    <2>3. c <= d /\ KindAt(x, r, c) # "spacer" /\ KindAt(x, r, d) # "wide"
      BY <1>12, <1>13, <1>14
    <2>4. QED
      BY <2>1, <2>2, <2>3, <1>4, <1>5, <1>15, Filled
  <1>17. Local(u, r, (S \cup {c}) \ (c..d)) /\ Edits(u, x, r, {})
    BY <1>11, <1>12, DamagedEdits
  <1>18. Local(u, r, {c})
    <2>1. ((S \cup {c}) \ (c..d)) \cap (0..LastCol) \subseteq {c}
      BY <1>1
    <2>2. QED
      BY <1>17, <2>1, LocalWithin
  <1>19. Pairs(u, r, {})
    BY <1>16, <1>17, MarkedPairs
  <1>20. u.cluster /\ u.top <= u.bottom
    BY <1>7, <1>9, <1>12, <1>17 DEF Edits, Control, Steady, Touched
  <1>21. QED
    BY <1>18, <1>19, <1>20 DEF Touched

\* promote_cluster_to_wide, where the spacer fits.
LEMMA Promoted ==
  ASSUME NEW s, NEW r \in 0..LastRow, NEW c \in 0..LastCol, Touched(s, r, c), KindAt(s, r, c) = "glyph",
         NEW d \in 0..LastCol, d = c + 1, NEW u, u = Promote(s, r, c)
  PROVE  Touched(u, r, c)
  <1>1. PICK S : S = {c} /\ Local(s, r, S)
    BY DEF Touched
  <1>2. /\ s \in State /\ s.rows[r] \in Row
    BY <1>1 DEF Local, State
  <1>3. PICK link \in Nat : link = LinkAt(s.rows[r], c)
    BY <1>2, LinkTyped
  <1>4. PICK v1 : v1 = FreeSpacerOf(s, r, d)
    OBVIOUS
  <1>5. PICK v2 : v2 = Widened(v1, r, c, "wide")
    OBVIOUS
  <1>6. PICK cell : cell = PenCell("spacer")
    OBVIOUS
  <1>7. PICK v3 : v3 = Put(v2, r, d, cell, link)
    OBVIOUS
  <1>8. PICK n \in 1..Cols : n = c + 2
    BY Sizes
  <1>9. PICK v4 : v4 = Advance(v3, n)
    OBVIOUS
  <1>10. u = DamageSpan(v4, r, c, d)
    <2>1. ~(c + 1 >= Cols)
      BY Sizes
    <2>2. v2 = [FreeSpacerOf(s, r, c + 1) EXCEPT !.rows[r].cells[c].k = "wide"]
      BY <1>4, <1>5 DEF Widened
    <2>3. v3 = Put(v2, r, c + 1, PenCell("spacer"), LinkAt(s.rows[r], c))
      BY <1>3, <1>6, <1>7
    <2>4. v4 = Advance(v3, c + 2)
      BY <1>8, <1>9
    <2>5. QED
      BY <2>1, <2>2, <2>3, <2>4 DEF Promote
  <1>11. /\ Local(v1, r, S) /\ Edits(v1, s, r, {d + 1}) /\ Pairs(v1, r, {d + 1})
         /\ d + 1 < Cols => KindAt(v1, r, d + 1) # "spacer"
    <2>1. PICK B : B = {}
      OBVIOUS
    <2>2. d + 1 \notin B /\ d + 2 \notin B
      BY <2>1
    <2>3. Pairs(s, r, B)
      BY <2>1 DEF Touched
    <2>4. /\ Local(v1, r, S) /\ Edits(v1, s, r, {d + 1}) /\ Pairs(v1, r, B \cup {d + 1})
          /\ d + 1 < Cols => KindAt(v1, r, d + 1) # "spacer"
      BY <1>1, <1>4, <2>2, <2>3, SpacerFreed
    <2>5. B \cup {d + 1} = {d + 1}
      BY <2>1
    <2>6. QED
      BY <2>4, <2>5
  <1>12. KindAt(v1, r, c) = "glyph" /\ (c > 0 => KindAt(v1, r, c - 1) # "wide")
    <2>1. c \notin {d + 1} /\ c - 1 \notin {d + 1} /\ (c > 0 => c - 1 \in 0..LastCol)
      BY Sizes
    <2>2. PICK b \in 0..Cols : b = c
      BY Sizes
    <2>3. Sound(s, r, b)
      BY DEF Touched, Pairs
    <2>4. c > 0 => KindAt(s, r, c - 1) # "wide"
      BY <2>2, <2>3 DEF Sound
    <2>5. QED
      BY <2>1, <2>4, <1>11 DEF Edits
  <1>13. Local(v2, r, S \cup {c}) /\ Edits(v2, v1, r, {c}) /\ KindAt(v2, r, c) = "wide"
    <2>1. PICK k \in Kinds : k = "wide"
      BY DEF Kinds
    <2>2. KindAt(v1, r, c) # "blank" /\ v2 = Widened(v1, r, c, k)
      BY <2>1, <1>5, <1>12
    <2>3. Local(v1, r, S)
      BY <1>11
    <2>4. Local(v2, r, S \cup {c}) /\ Edits(v2, v1, r, {c}) /\ KindAt(v2, r, c) = k
      BY <2>2, <2>3, Widens
    <2>5. QED
      BY <2>1, <2>4
  <1>14. PICK T : T = S \cup {c}
    OBVIOUS
  <1>15. PlainCell(cell) /\ cell.k = "spacer"
    <2>1. "spacer" \in Kinds
      BY DEF Kinds
    <2>2. QED
      BY <2>1, <1>6, PenCells
  <1>16. Local(v3, r, T \cup {d}) /\ Edits(v3, v2, r, {d}) /\ Shows(v3, r, d, cell)
    <2>1. Local(v2, r, T)
      BY <1>13, <1>14
    <2>2. QED
      BY <2>1, <1>7, <1>15, PutEdits
  <1>17. KindAt(v3, r, d) = "spacer" /\ KindAt(v3, r, c) = "wide"
    <2>1. c \notin {d}
      OBVIOUS
    <2>2. QED
      BY <2>1, <1>13, <1>15, <1>16 DEF Shows, Edits
  <1>18. Pairs(v3, r, {})
    <2>1. Pairs(v1, r, c..(d + 1))
      <3>1. {d + 1} \cap (0..Cols) \subseteq c..(d + 1)
        BY Sizes
      <3>2. QED
        BY <3>1, <1>11, PairsWithin
    <2>2. Kinded(v3, v1, r, c..d)
      <3>1. \A e \in 0..LastCol : e \notin c..d => e \notin {c} /\ e \notin {d}
        BY Sizes
      <3>2. QED
        BY <3>1, <1>13, <1>16 DEF Edits, Kinded
    <2>3. \A e \in (c + 1)..d : Sound(v3, r, e)
      <3>1. \A e \in (c + 1)..d : e = d
        OBVIOUS
      <3>2. d - 1 = c /\ d < Cols /\ d > 0
        BY Sizes
      <3>3. Sound(v3, r, d)
        BY <3>2, <1>17 DEF Sound
      <3>4. QED
        BY <3>1, <3>3
    <2>4. c <= d /\ KindAt(v3, r, c) # "spacer" /\ KindAt(v3, r, d) # "wide"
      BY <1>17
    <2>5. QED
      BY <2>1, <2>2, <2>3, <2>4, <1>11, <1>12, Filled
  <1>19. Local(v4, r, T \cup {d}) /\ Steady(v4, v3) /\ v4.rows = v3.rows
    BY <1>9, <1>16, StandsAfter
  <1>20. Local(u, r, (T \cup {d}) \ (c..d)) /\ Edits(u, v4, r, {})
    BY <1>10, <1>19, DamagedEdits
  <1>21. Local(u, r, {c})
    <2>1. ((T \cup {d}) \ (c..d)) \cap (0..LastCol) \subseteq {c}
      BY <1>1, <1>14
    <2>2. QED
      BY <1>20, <2>1, LocalWithin
  <1>22. Pairs(u, r, {})
    <2>1. \A q \in 0..LastRow, b \in 0..Cols : Sound(v4, q, b) <=> Sound(v3, q, b)
      BY <1>19 DEF Sound, KindAt
    <2>2. Pairs(v4, r, {})
      BY <2>1, <1>18 DEF Pairs
    <2>3. QED
      BY <2>2, <1>20, MarkedPairs
  <1>23. u.cluster /\ u.top <= u.bottom
    BY <1>11, <1>13, <1>16, <1>19, <1>20 DEF Edits, Control, Steady, Touched
  <1>24. QED
    BY <1>21, <1>22, <1>23 DEF Touched

\* A cluster base that moves to another row: its marks are put beside it before it reads them.
Carried(base, n) == [base EXCEPT !.k = "wide", !.marked = n > 0, !.ownMarks = n]
Readied(x, n) == [x EXCEPT !.marks = IF n > 0 THEN Update(@, 0, n) ELSE @]
IsFirst(c) == c = 0
NoLead(base) == ~base.lead
NotLed(x, y) == y.cells[LastCol].lead => x.cells[LastCol].lead
LEMMA RowLanded ==
  ASSUME NEW x \in Row, Fit(x), NEW base \in Cell, NoLead(base), NEW link \in Nat, NEW n \in Nat,
         NEW c \in 0..LastCol, IsFirst(c), NEW y, y = PutInRow(Readied(x, n), c, Carried(base, n), link)
  PROVE  y \in Row /\ Fit(y) /\ Alike(x, y, {c}) /\ Reads(y, c, "wide") /\ NotLed(x, y)
  <1>1. c = 0 /\ ~base.lead
    BY DEF IsFirst, NoLead
  <1>2. PICK z : z = Readied(x, n)
    OBVIOUS
  <1>3. PICK marks : marks = IF n > 0 THEN Update(x.marks, 0, n) ELSE x.marks
    OBVIOUS
  <1>4. marks \in SideMap
    BY <1>3, UpdatedTyped DEF Row
  <1>5. z = [x EXCEPT !.marks = marks]
    BY <1>2, <1>3 DEF Readied
  <1>6. z \in Row /\ z.cells = x.cells /\ z.links = x.links /\ z.marks = marks /\ z.wrapped = x.wrapped
    BY <1>4, <1>5 DEF Row
  <1>7. /\ \A d : d # 0 => (d \in DOMAIN marks <=> d \in DOMAIN x.marks)
        /\ \A d \in DOMAIN x.marks : d # 0 => marks[d] = x.marks[d]
        /\ n > 0 => 0 \in DOMAIN marks /\ marks[0] = n
    BY <1>3, Updated
  <1>8. PICK cell \in Cell : cell = Carried(base, n)
    <2>1. "wide" \in Kinds /\ (n > 0) \in BOOLEAN
      BY DEF Kinds
    <2>2. Carried(base, n) \in Cell
      BY <2>1 DEF Carried, Cell
    <2>3. QED
      BY <2>2
  <1>9. cell.k = "wide" /\ ~cell.lead /\ (cell.marked => n > 0) /\ (~cell.marked => n = 0) /\ cell.ownMarks = n
    <2>1. cell.k = "wide" /\ cell.lead = base.lead /\ cell.ownMarks = n
      BY <1>8 DEF Carried, Cell
    <2>2. cell.marked <=> n > 0
      BY <1>8 DEF Carried, Cell
    <2>3. ~(n > 0) => n = 0
      OBVIOUS
    <2>4. QED
      BY <1>1, <2>1, <2>2, <2>3
  <1>10. MarksReady(z, c, cell)
    BY <1>1, <1>6, <1>7, <1>9 DEF MarksReady
  <1>11. ASSUME NEW d \in 0..LastCol, d # c
         PROVE  Painted(z, d) = Painted(x, d) /\ FitAt(z, d) /\ LeadFits(z, d)
    <2>1. /\ z.cells[d] = x.cells[d] /\ z.wrapped = x.wrapped
          /\ d \in DOMAIN z.links <=> d \in DOMAIN x.links
          /\ d \in DOMAIN x.links => z.links[d] = x.links[d]
          /\ d \in DOMAIN z.marks <=> d \in DOMAIN x.marks
          /\ d \in DOMAIN x.marks => z.marks[d] = x.marks[d]
      BY <1>1, <1>6, <1>7, <1>11
    <2>2. FitAt(x, d) /\ LeadFits(x, d)
      BY DEF Fit
    <2>3. QED
      BY <2>1, <2>2, <1>6, ReadAlike
  <1>12. FitBut(z, c)
    BY <1>11 DEF FitBut
  <1>13. y = PutInRow(z, c, cell, link)
    BY <1>2, <1>8
  <1>14. /\ y \in Row /\ Fit(y) /\ y.wrapped = z.wrapped /\ y.cells[c].k = cell.k /\ ~y.cells[c].lead
         /\ \A d \in 0..LastCol : d # c => y.cells[d] = z.cells[d] /\ Painted(y, d) = Painted(z, d)
    BY <1>6, <1>9, <1>10, <1>12, <1>13, RowPut
  <1>15. Alike(x, y, {c})
    BY <1>6, <1>11, <1>14 DEF Alike
  <1>16. LastCol # c /\ LastCol \in 0..LastCol
    BY <1>1, Sizes
  <1>17. QED
    BY <1>6, <1>9, <1>14, <1>15, <1>16 DEF Reads, NotLed

\* relocate_cluster_wide: the base and its spacer at the start of the cursor's row.
LEMMA Lands ==
  ASSUME NEW s, NEW r \in 0..LastRow, r = s.row, Local(s, r, {}), Pairs(s, r, {}), s.cluster, s.top <= s.bottom,
         NEW base \in Cell, ~base.lead, NEW link \in Nat, NEW n \in Nat, NEW u, u = Landed(s, base, link, n)
  PROVE  Local(u, r, {}) /\ Pairs(u, r, {}) /\ u.cluster /\ u.top <= u.bottom
  <1>1. PICK c \in 0..LastCol : c = 0
    BY Sizes
  <1>2. PICK d \in 0..LastCol : d = 1
    BY Sizes
  <1>3. PICK v1 : v1 = FreeSpacerOf(s, r, d)
    OBVIOUS
  <1>4. PICK v2 : v2 = Put([v1 EXCEPT !.rows[r] = Readied(@, n)], r, c, Carried(base, n), link)
    OBVIOUS
  <1>5. PICK cell : cell = PenCell("spacer")
    OBVIOUS
  <1>6. PICK v3 : v3 = Put(v2, r, d, cell, link)
    OBVIOUS
  <1>7. PICK v4 : v4 = Unpark(v3)
    OBVIOUS
  <1>8. PICK m \in 1..Cols : m = 2
    BY Sizes
  <1>9. PICK v5 : v5 = Advance(v4, m)
    OBVIOUS
  <1>10. /\ Local(v1, r, {}) /\ Edits(v1, s, r, {d + 1}) /\ Pairs(v1, r, {d + 1})
         /\ d + 1 < Cols => KindAt(v1, r, d + 1) # "spacer"
    <2>1. PICK B : B = {}
      OBVIOUS
    <2>2. d + 1 \notin B /\ d + 2 \notin B
      BY <2>1
    <2>3. Pairs(s, r, B)
      BY <2>1
    <2>4. /\ Local(v1, r, {}) /\ Edits(v1, s, r, {d + 1}) /\ Pairs(v1, r, B \cup {d + 1})
          /\ d + 1 < Cols => KindAt(v1, r, d + 1) # "spacer"
      BY <1>3, <2>2, <2>3, SpacerFreed
    <2>5. B \cup {d + 1} = {d + 1}
      BY <2>1
    <2>6. QED
      BY <2>4, <2>5
  <1>11. v1.rows[r] \in Row /\ Fit(v1.rows[r]) /\ v1 \in State /\ v1.rows \in [0..LastRow -> Row]
    BY <1>10 DEF Local, State
  <1>12. u = DamageSpan(v5, r, c, d)
    <2>1. [FreeSpacerOf(s, s.row, 1) EXCEPT !.rows[s.row].marks = IF n > 0 THEN Update(@, 0, n) ELSE @]
            = [v1 EXCEPT !.rows[r] = Readied(@, n)]
      BY <1>2, <1>3 DEF Readied
    <2>2. PICK w : w = [v1 EXCEPT !.rows[r] = Readied(@, n)]
      OBVIOUS
    <2>3. v2 = Put(w, r, 0, Carried(base, n), link)
      BY <2>2, <1>1, <1>4
    <2>4. u = DamageSpan(Advance([Put(Put(w, s.row, 0, Carried(base, n), link), s.row, 1, PenCell("spacer"), link) EXCEPT !.park = FALSE], 2), s.row, 0, 1)
      BY <2>1, <2>2 DEF Landed, Carried
    <2>5. v3 = Put(Put(w, s.row, 0, Carried(base, n), link), s.row, 1, PenCell("spacer"), link)
      BY <2>3, <1>2, <1>5, <1>6
    <2>6. v4 = [Put(Put(w, s.row, 0, Carried(base, n), link), s.row, 1, PenCell("spacer"), link) EXCEPT !.park = FALSE]
      BY <2>5, <1>7 DEF Unpark
    <2>7. QED
      BY <2>4, <2>6, <1>1, <1>2, <1>8, <1>9
  <1>13. PICK row : row = PutInRow(Readied(v1.rows[r], n), c, Carried(base, n), link)
    OBVIOUS
  <1>14. /\ row \in Row /\ Fit(row) /\ Alike(v1.rows[r], row, {c}) /\ row.cells[c].k = "wide"
         /\ row.cells[LastCol].lead => v1.rows[r].cells[LastCol].lead
    <2>1. NoLead(base) /\ IsFirst(c)
      BY <1>1 DEF NoLead, IsFirst
    <2>2. row \in Row /\ Fit(row) /\ Alike(v1.rows[r], row, {c}) /\ Reads(row, c, "wide") /\ NotLed(v1.rows[r], row)
      BY <2>1, <1>11, <1>13, RowLanded
    <2>3. QED
      BY <2>2 DEF Reads, NotLed
  <1>15. v2 = Written(v1, r, row)
    <2>1. PICK p : p = Readied(v1.rows[r], n)
      OBVIOUS
    <2>2. PICK w : w = [v1 EXCEPT !.rows = [v1.rows EXCEPT ![r] = p]]
      OBVIOUS
    <2>3. v2 = Put(w, r, c, Carried(base, n), link)
      BY <2>1, <2>2, <1>4
    <2>4. w.rows = [v1.rows EXCEPT ![r] = p] /\ w.rows[r] = p
      BY <2>2, <1>11 DEF State
    <2>5. v2 = [w EXCEPT !.rows = [w.rows EXCEPT ![r] = row]]
      BY <2>1, <2>3, <2>4, <1>13 DEF Put, PutInRow
    <2>6. [w.rows EXCEPT ![r] = row] = [v1.rows EXCEPT ![r] = row]
      BY <2>4, <1>11
    <2>7. [w EXCEPT !.rows = [v1.rows EXCEPT ![r] = row]] = [v1 EXCEPT !.rows = [v1.rows EXCEPT ![r] = row]]
      BY <2>2, <1>11 DEF State
    <2>8. QED
      BY <2>5, <2>6, <2>7 DEF Written
  <1>16. Local(v2, r, {} \cup {c}) /\ Edits(v2, v1, r, {c}) /\ RowIs(v2, v1, r, row)
    BY <1>10, <1>14, <1>15, RowEdited
  <1>17. PICK S : S = {} \cup {c}
    OBVIOUS
  <1>18. PlainCell(cell) /\ cell.k = "spacer"
    <2>1. "spacer" \in Kinds
      BY DEF Kinds
    <2>2. QED
      BY <2>1, <1>5, PenCells
  <1>19. Local(v3, r, S \cup {d}) /\ Edits(v3, v2, r, {d}) /\ Shows(v3, r, d, cell)
    <2>1. Local(v2, r, S)
      BY <1>16, <1>17
    <2>2. QED
      BY <2>1, <1>6, <1>18, PutEdits
  <1>20. KindAt(v3, r, d) = "spacer" /\ KindAt(v3, r, c) = "wide"
    <2>1. c \notin {d}
      BY <1>1, <1>2
    <2>2. KindAt(v2, r, c) = "wide"
      BY <1>14, <1>16 DEF RowIs, KindAt
    <2>3. QED
      BY <2>1, <2>2, <1>18, <1>19 DEF Shows, Edits
  <1>21. Pairs(v3, r, {})
    <2>1. Pairs(v1, r, c..(d + 1))
      <3>1. {d + 1} \cap (0..Cols) \subseteq c..(d + 1)
        BY <1>1, <1>2
      <3>2. QED
        BY <3>1, <1>10, PairsWithin
    <2>2. Kinded(v3, v1, r, c..d)
      <3>1. \A e \in 0..LastCol : e \notin c..d => e \notin {c} /\ e \notin {d}
        BY <1>1, <1>2
      <3>2. QED
        BY <3>1, <1>16, <1>19 DEF Edits, Kinded
    <2>3. \A e \in (c + 1)..d : Sound(v3, r, e)
      <3>1. \A e \in (c + 1)..d : e = d
        BY <1>1, <1>2
      <3>2. d - 1 = c /\ d < Cols /\ d > 0
        BY <1>1, <1>2, Sizes
      <3>3. Sound(v3, r, d)
        BY <3>2, <1>20 DEF Sound
      <3>4. QED
        BY <3>1, <3>3
    <2>4. c <= d /\ KindAt(v3, r, c) # "spacer" /\ KindAt(v3, r, d) # "wide" /\ ~(c > 0)
      BY <1>1, <1>2, <1>20
    <2>5. QED
      BY <2>1, <2>2, <2>3, <2>4, <1>10, Filled
  <1>22. Local(v4, r, S \cup {d}) /\ v4.rows = v3.rows /\ v4.cluster = v3.cluster /\ v4.top = v3.top /\ v4.bottom = v3.bottom
    <2>1. v3 \in State
      BY <1>19 DEF Local
    <2>2. v4 \in State /\ v4.rows = v3.rows /\ v4.view = v3.view /\ v4.dmg = v3.dmg /\ v4.cluster = v3.cluster /\ v4.top = v3.top /\ v4.bottom = v3.bottom
      BY <2>1, <1>7 DEF Unpark, State
    <2>3. QED
      BY <2>2, <1>19 DEF Local, Told
  <1>23. Local(v5, r, S \cup {d}) /\ Steady(v5, v4) /\ v5.rows = v4.rows
    BY <1>9, <1>22, StandsAfter
  <1>24. Local(u, r, (S \cup {d}) \ (c..d)) /\ Edits(u, v5, r, {})
    BY <1>12, <1>23, DamagedEdits
  <1>25. Local(u, r, {})
    <2>1. (S \cup {d}) \ (c..d) = {}
      BY <1>1, <1>2, <1>17
    <2>2. QED
      BY <1>24, <2>1
  <1>26. Pairs(u, r, {})
    <2>1. \A q \in 0..LastRow, b \in 0..Cols : Sound(v5, q, b) <=> Sound(v3, q, b)
      BY <1>22, <1>23 DEF Sound, KindAt
    <2>2. Pairs(v5, r, {})
      BY <2>1, <1>21 DEF Pairs
    <2>3. QED
      BY <2>2, <1>24, MarkedPairs
  <1>27. u.cluster /\ u.top <= u.bottom
    BY <1>10, <1>16, <1>19, <1>22, <1>23, <1>24 DEF Edits, Control, Steady
  <1>28. QED
    BY <1>25, <1>26, <1>27

\* relocate_cluster_wide: the last column's cluster wraps to the next line.
LEMMA Relocated ==
  ASSUME NEW s, NEW r \in 0..LastRow, NEW c \in 0..LastCol, Touched(s, r, c), KindAt(s, r, c) = "glyph",
         c = LastCol, r = s.row, NEW u, u = Relocate(s, r, c)
  PROVE  Touched(u, r, c)
  <1>1. s \in State /\ s.row \in 0..LastRow /\ s.bottom \in 0..LastRow /\ s.rows \in [0..LastRow -> Row] /\ Fit(s.rows[r])
    BY DEF Touched, Local, State
  <1>2. CASE ~s.autowrap \/ ~WraplineAdvances(s)
    BY <1>2 DEF Relocate
  <1>3. CASE s.autowrap /\ WraplineAdvances(s)
    <2>1. PICK base : base = s.rows[r].cells[c]
      OBVIOUS
    <2>2. PICK link : link = LinkAt(s.rows[r], c)
      OBVIOUS
    <2>3. PICK n : n = MarksAt(s.rows[r], c)
      OBVIOUS
    <2>4. base \in Cell /\ ~base.lead /\ link \in Nat /\ n \in Nat
      <3>1. s.rows[r] \in Row
        BY <1>1
      <3>2. base \in Cell
        BY <2>1, <3>1 DEF Row
      <3>3. ~base.lead
        BY <1>1, <2>1 DEF Fit, LeadFits, KindAt
      <3>4. QED
        BY <2>2, <2>3, <3>1, <3>2, <3>3, LinkTyped
    <2>5. PICK v : v = VacateForWrap(s, r, LastCol)
      OBVIOUS
    <2>6. PICK w : w = Wrapline(v)
      OBVIOUS
    <2>7. u = Landed(w, base, link, n)
      BY <1>3, <2>1, <2>2, <2>3, <2>5, <2>6 DEF Relocate
    <2>8. Almost(s, r)
      BY DEF Touched, Almost, Backed, Strict
    <2>9. Nearly(v, r) /\ Control(v, s)
      BY <2>5, <2>8, Vacates
    <2>10. PICK z : z = IF v.row = v.bottom THEN v.row - 1 ELSE v.row
      OBVIOUS
    <2>11. PICK y : y = r
      OBVIOUS
    <2>12. Turns(v, TRUE, y, z)
      BY <1>3, <2>9, <2>10, <2>11 DEF Turns, WraplineAdvances, Control
    <2>13. Nearly(w, z) /\ Steady(w, v)
      <3>1. Nearly(v, y)
        BY <2>9, <2>11
      <3>2. QED
        BY <2>6, <2>12, <3>1, Wrapped
    <2>14. PICK q \in 0..LastRow : q = w.row
      BY <2>13 DEF Nearly, Local, State
    <2>15. Local(w, q, {}) /\ Pairs(w, q, {}) /\ w.cluster /\ w.top <= w.bottom
      <3>1. Local(w, q, {}) /\ Pairs(w, q, {})
        BY <2>13, LocalElsewhere, PairsElsewhere DEF Nearly
      <3>2. QED
        BY <3>1, <2>9, <2>13 DEF Nearly, Steady, Control, Touched
    <2>16. Local(u, q, {}) /\ Pairs(u, q, {}) /\ u.cluster /\ u.top <= u.bottom
      BY <2>4, <2>7, <2>14, <2>15, Lands
    <2>17. Local(u, r, {}) /\ Pairs(u, r, {})
      BY <2>16, LocalElsewhere, PairsElsewhere
    <2>18. Local(u, r, {c})
      BY <2>17, LocalWithin
    <2>19. QED
      BY <2>16, <2>17, <2>18 DEF Touched
  <1>4. QED
    BY <1>2, <1>3

\* width_may_change: only a glyph can become wide.
LEMMA Widths ==
  ASSUME NEW s, Whole(s), NEW c \in ClusterCol(s), NEW kind, NEW w \in JoinWidths(s, c, kind)
  PROVE  w \in {1, 2} /\ (w = 2 /\ KindAt(s, s.row, c) # "wide" => KindAt(s, s.row, c) = "glyph")
  <1>1. c \in 0..LastCol /\ KindAt(s, s.row, c) # "spacer"
    BY ClusterBase
  <1>2. KindAt(s, s.row, c) \in Kinds
    <2>1. s.rows[s.row] \in Row
      BY DEF Whole, Local, State
    <2>2. s.rows[s.row].cells[c] \in Cell
      BY <1>1, <2>1 DEF Row
    <2>3. QED
      BY <2>2 DEF KindAt, Cell
  <1>3. w \in {1, 2} /\ (w = 2 => s.rows[s.row].cells[c].k = "wide" \/ s.rows[s.row].cells[c].k # "blank")
    BY DEF JoinWidths, IsWide
  <1>4. QED
    BY <1>1, <1>2, <1>3 DEF KindAt, Kinds

\* try_grapheme_join.
LEMMA Joins ==
  ASSUME NEW s, Whole(s), s.cluster, NEW c \in ClusterCol(s), NEW kind, NEW w \in JoinWidths(s, c, kind),
         NEW u, u = Join(s, c, w)
  PROVE  Whole(u)
  <1>1. PICK r \in 0..LastRow : r = s.row
    BY DEF Whole, Local, State
  <1>2. PICK d \in 0..LastCol : d = c
    BY ClusterBase
  <1>3. KindAt(s, r, d) # "spacer" /\ (w = 2 /\ KindAt(s, r, d) # "wide" => KindAt(s, r, d) = "glyph")
    BY <1>1, <1>2, ClusterBase, Widths
  <1>4. PICK v : v = Marks(s, r, d)
    OBVIOUS
  <1>5. Touched(v, r, d) /\ Edits(v, s, r, {})
    <2>1. Local(s, r, {}) /\ Pairs(s, r, {})
      BY LocalElsewhere, PairsElsewhere DEF Whole
    <2>2. Local(v, r, {} \cup {d}) /\ Edits(v, s, r, {})
      BY <1>4, <2>1, Marked
    <2>3. {} \cup {d} = {d}
      OBVIOUS
    <2>4. Pairs(v, r, {})
      BY <2>1, <2>2, MarkedPairs
    <2>5. QED
      BY <2>2, <2>3, <2>4 DEF Touched, Whole, Edits, Control
  <1>6. KindAt(v, r, d) = KindAt(s, r, d)
    BY <1>5 DEF Edits
  <1>7. CASE MarksAt(s.rows[r], d) >= ClusterTail
    BY <1>1, <1>2, <1>7 DEF Join
  <1>8. CASE ~(MarksAt(s.rows[r], d) >= ClusterTail)
    <2>1. PICK x : x = IF w = 2 /\ ~IsWide(s, r, d) THEN Promote(v, r, d) ELSE IF w = 1 /\ IsWide(s, r, d) THEN Demote(v, r, d) ELSE v
      OBVIOUS
    <2>2. u = DamageSpan(x, r, d, d)
      BY <1>1, <1>2, <1>4, <1>8, <2>1 DEF Join, Marks
    <2>3. CASE w = 2 /\ ~IsWide(s, r, d)
      <3>1. KindAt(v, r, d) = "glyph" /\ x = Promote(v, r, d)
        BY <1>3, <1>6, <2>1, <2>3 DEF IsWide, KindAt
      <3>2. CASE d = LastCol
        <4>1. d + 1 >= Cols
          BY <3>2, Sizes
        <4>2. x = Relocate(v, r, d)
          BY <3>1, <4>1 DEF Promote
        <4>3. r = v.row
          BY <1>1, <1>5 DEF Edits, Control
        <4>4. QED
          BY <1>5, <2>2, <3>1, <3>2, <4>2, <4>3, Relocated, TouchedWhole
      <3>3. CASE d # LastCol
        <4>1. PICK e \in 0..LastCol : e = d + 1
          BY <3>3, Sizes
        <4>2. QED
          BY <1>5, <2>2, <3>1, <4>1, Promoted, TouchedWhole
      <3>4. QED
        BY <3>2, <3>3
    <2>4. CASE w = 1 /\ IsWide(s, r, d)
      <3>1. KindAt(v, r, d) = "wide" /\ x = Demote(v, r, d)
        BY <1>6, <2>1, <2>4 DEF IsWide, KindAt
      <3>2. QED
        BY <1>5, <2>2, <3>1, Demoted, TouchedWhole
    <2>5. CASE ~(w = 2 /\ ~IsWide(s, r, d)) /\ ~(w = 1 /\ IsWide(s, r, d))
      <3>1. x = v
        BY <2>1, <2>5
      <3>2. QED
        BY <1>5, <2>2, <3>1, TouchedWhole
    <2>6. QED
      BY <2>3, <2>4, <2>5
  <1>9. QED
    BY <1>7, <1>8

----------------------------------------------------------------------------
(* The cursor, the margins and the modes. *)
LEMMA WholeNearly == ASSUME NEW s, Whole(s) PROVE Nearly(s, -1) /\ s \in State
  BY DEF Whole, Nearly, Local

\* Only the cursor moves, and does not park.
LEMMA CursorMoved ==
  ASSUME NEW s, Whole(s), NEW row \in 0..LastRow, NEW col \in 0..LastCol, NEW park, park = FALSE, NEW u, u = At(s, row, col, park)
  PROVE  Whole(u)
  <1>1. PICK y : y = -1
    OBVIOUS
  <1>2. Nearly(s, y) /\ park \in BOOLEAN
    BY <1>1, WholeNearly
  <1>3. Nearly(u, y) /\ u.park = park
    BY <1>2, Placed
  <1>4. QED
    BY <1>1, <1>3, NearlyWhole

\* Neither a cell nor the cursor is touched.
Rests(u, s) == Sited(u, s) /\ u.row = s.row /\ u.park = s.park /\ u.bottom = s.bottom
LEMMA RestsWhole ==
  ASSUME NEW s, Whole(s), NEW u, Rests(u, s)
  PROVE  Whole(u)
  <1>1. PICK y : y = -1
    OBVIOUS
  <1>2. Nearly(s, y) /\ Sited(u, s)
    BY <1>1, WholeNearly DEF Rests
  <1>3. Nearly(u, y)
    BY <1>2, SitedNearly
  <1>4. Parked(u)
    BY DEF Parked, Whole, Rests, Sited, Vacant
  <1>5. QED
    BY <1>1, <1>3, <1>4 DEF Whole, Nearly

\* The cursor is not parked, or it was restored.
Unparkable(u) == ~u.park \/ u.returned
LEMMA SitedWhole ==
  ASSUME NEW s, Whole(s), NEW u, Sited(u, s), Unparkable(u)
  PROVE  Whole(u)
  <1>1. PICK y : y = -1
    OBVIOUS
  <1>2. Nearly(s, y)
    BY <1>1, WholeNearly
  <1>3. Nearly(u, y)
    BY <1>2, SitedNearly
  <1>4. Parked(u)
    BY DEF Unparkable, Parked, Strict
  <1>5. QED
    BY <1>1, <1>3, <1>4 DEF Whole, Nearly

Returns(s) == [s EXCEPT !.col = 0, !.park = FALSE]
LEMMA Returned == ASSUME NEW s, Whole(s), NEW u, u = Returns(s) PROVE Whole(u)
  <1>1. s \in State
    BY WholeNearly
  <1>2. PICK row \in 0..LastRow : row = s.row
    BY <1>1 DEF State
  <1>3. PICK col \in 0..LastCol : col = 0
    BY Sizes
  <1>4. PICK park : park = FALSE
    OBVIOUS
  <1>5. u = At(s, row, col, park)
    BY <1>1, <1>2, <1>3, <1>4 DEF Returns, At, State
  <1>6. QED
    BY <1>4, <1>5, CursorMoved

Goes(s, row, col) == [s EXCEPT !.row = row, !.col = col, !.park = FALSE]
LEMMA Went == ASSUME NEW s, Whole(s), NEW row \in 0..LastRow, NEW col \in 0..LastCol, NEW u, u = Goes(s, row, col) PROVE Whole(u)
  <1>1. PICK park : park = FALSE
    OBVIOUS
  <1>2. u = At(s, row, col, park)
    BY <1>1 DEF Goes, At
  <1>3. QED
    BY <1>1, <1>2, CursorMoved

\* step_back.
LEMMA SteppedBack == ASSUME NEW s, Whole(s), NEW u, u = StepBack(s) PROVE Whole(u)
  <1>1. s \in State /\ s.row \in 0..LastRow /\ s.col \in 0..LastCol /\ s.top \in 0..LastRow
    BY WholeNearly DEF State
  <1>2. \/ u = [s EXCEPT !.park = FALSE]
        \/ s.col > 0 /\ u = [s EXCEPT !.park = FALSE, !.col = s.col - 1]
        \/ s.row > s.top /\ u = [s EXCEPT !.park = FALSE, !.row = s.row - 1, !.col = LastCol]
    BY DEF StepBack
  <1>3. PICK park : park = FALSE
    OBVIOUS
  <1>4. CASE u = [s EXCEPT !.park = FALSE]
    <2>1. PICK row \in 0..LastRow : row = s.row
      BY <1>1
    <2>2. PICK col \in 0..LastCol : col = s.col
      BY <1>1
    <2>3. u = At(s, row, col, park)
      BY <1>1, <1>3, <1>4, <2>1, <2>2 DEF At, State
    <2>4. QED
      BY <1>3, <2>3, CursorMoved
  <1>5. CASE s.col > 0 /\ u = [s EXCEPT !.park = FALSE, !.col = s.col - 1]
    <2>1. PICK row \in 0..LastRow : row = s.row
      BY <1>1
    <2>2. PICK col \in 0..LastCol : col = s.col - 1
      BY <1>1, <1>5, Sizes
    <2>3. u = At(s, row, col, park)
      BY <1>1, <1>3, <1>5, <2>1, <2>2 DEF At, State
    <2>4. QED
      BY <1>3, <2>3, CursorMoved
  <1>6. CASE s.row > s.top /\ u = [s EXCEPT !.park = FALSE, !.row = s.row - 1, !.col = LastCol]
    <2>1. PICK row \in 0..LastRow : row = s.row - 1
      BY <1>1, <1>6, Sizes
    <2>2. PICK col \in 0..LastCol : col = LastCol
      BY Sizes
    <2>3. u = At(s, row, col, park)
      BY <1>1, <1>3, <1>6, <2>1, <2>2 DEF At, State
    <2>4. QED
      BY <1>3, <2>3, CursorMoved
  <1>7. QED
    BY <1>2, <1>4, <1>5, <1>6

Margins(s, top, bottom) == [s EXCEPT !.top = top, !.bottom = bottom, !.row = 0, !.col = 0, !.park = FALSE]
LEMMA MarginsSet ==
  ASSUME NEW s, Whole(s), NEW top \in 0..LastRow, NEW bottom \in 0..LastRow, top < bottom, NEW u, u = Margins(s, top, bottom)
  PROVE  Whole(u)
  <1>1. s \in State
    BY WholeNearly
  <1>2. 0 \in 0..LastRow /\ 0 \in 0..LastCol
    BY Sizes
  <1>3. /\ u \in State /\ u.rows = s.rows /\ u.view = s.view /\ u.dmg = s.dmg /\ u.top = top /\ u.bottom = bottom /\ ~u.park
        /\ u.cluster = s.cluster /\ u.returned = s.returned
    BY <1>1, <1>2 DEF Margins, State
  <1>4. Sited(u, s)
    BY <1>3 DEF Sited, Strict
  <1>5. Unparkable(u)
    BY <1>3 DEF Unparkable
  <1>6. QED
    BY <1>4, <1>5, SitedWhole

ModeSet(u, s) == \/ u = [s EXCEPT !.autowrap = ~@] \/ u = [s EXCEPT !.insert = ~@] \/ u = [s EXCEPT !.pen = 1 - @]
                 \/ u = [s EXCEPT !.saved = [row |-> s.row, col |-> s.col, park |-> s.park, pen |-> s.pen]]
LEMMA ModesSet ==
  ASSUME NEW s, Whole(s), NEW u, ModeSet(u, s)
  PROVE  Whole(u)
  <1>1. s \in State /\ s.top <= s.bottom
    BY WholeNearly DEF Whole
  <1>2. s.autowrap \in BOOLEAN /\ s.insert \in BOOLEAN /\ s.pen \in 0..1 /\ s.row \in 0..LastRow /\ s.col \in 0..LastCol /\ s.park \in BOOLEAN
    BY <1>1 DEF State
  <1>3. /\ (~s.autowrap) \in BOOLEAN /\ (~s.insert) \in BOOLEAN /\ 1 - s.pen \in 0..1
        /\ [row |-> s.row, col |-> s.col, park |-> s.park, pen |-> s.pen] \in Saved
    <2>1. (~s.autowrap) \in BOOLEAN
      BY <1>2
    <2>2. (~s.insert) \in BOOLEAN
      BY <1>2
    <2>3. 1 - s.pen \in 0..1
      BY <1>2
    <2>4. [row |-> s.row, col |-> s.col, park |-> s.park, pen |-> s.pen] \in Saved
      BY <1>2 DEF Saved
    <2>5. QED
      BY <2>1, <2>2, <2>3, <2>4
  <1>4. CASE u = [s EXCEPT !.autowrap = ~@]
    <2>1. u \in State /\ Rests(u, s)
      BY <1>1, <1>3, <1>4 DEF State, Rests, Sited, Strict
    <2>2. QED
      BY <2>1, RestsWhole
  <1>5. CASE u = [s EXCEPT !.insert = ~@]
    <2>1. u \in State /\ Rests(u, s)
      BY <1>1, <1>3, <1>5 DEF State, Rests, Sited, Strict
    <2>2. QED
      BY <2>1, RestsWhole
  <1>6. CASE u = [s EXCEPT !.pen = 1 - @]
    <2>1. u \in State /\ Rests(u, s)
      BY <1>1, <1>3, <1>6 DEF State, Rests, Sited, Strict
    <2>2. QED
      BY <2>1, RestsWhole
  <1>7. CASE u = [s EXCEPT !.saved = [row |-> s.row, col |-> s.col, park |-> s.park, pen |-> s.pen]]
    <2>1. u \in State /\ Rests(u, s)
      BY <1>1, <1>3, <1>7 DEF State, Rests, Sited, Strict
    <2>2. QED
      BY <2>1, RestsWhole
  <1>8. QED
    BY <1>4, <1>5, <1>6, <1>7 DEF ModeSet

Restores(s) == [s EXCEPT !.row = s.saved.row, !.col = s.saved.col, !.park = s.saved.park, !.pen = s.saved.pen,
                         !.returned = @ \/ s.saved.park]
LEMMA Restored == ASSUME NEW s, Whole(s), NEW u, u = Restores(s) PROVE Whole(u)
  <1>1. s \in State /\ s.saved \in Saved /\ s.returned \in BOOLEAN /\ s.top <= s.bottom
    BY WholeNearly DEF Whole, State
  <1>2. PICK returned \in BOOLEAN : returned <=> s.returned \/ s.saved.park
    OBVIOUS
  <1>3. u = [s EXCEPT !.row = s.saved.row, !.col = s.saved.col, !.park = s.saved.park, !.pen = s.saved.pen, !.returned = returned]
    <2>1. s.saved.park \in BOOLEAN
      BY <1>1 DEF Saved
    <2>2. (s.returned \/ s.saved.park) = returned
      BY <1>1, <1>2, <2>1
    <2>3. QED
      BY <2>2 DEF Restores
  <1>4. /\ u \in State /\ u.rows = s.rows /\ u.view = s.view /\ u.dmg = s.dmg /\ u.top = s.top /\ u.bottom = s.bottom
        /\ u.park = s.saved.park /\ u.cluster = s.cluster /\ u.returned = returned
    BY <1>1, <1>3 DEF State, Saved
  <1>5. Sited(u, s)
    BY <1>1, <1>2, <1>4 DEF Sited, Strict
  <1>6. Unparkable(u)
    BY <1>2, <1>4 DEF Unparkable
  <1>7. QED
    BY <1>5, <1>6, SitedWhole

----------------------------------------------------------------------------
(* The invariant. *)
LEMMA PaintTyped ==
  ASSUME NEW row \in Row, NEW c \in 0..LastCol
  PROVE  Painted(row, c) \in Paint
  <1>1. row.cells[c].k \in Kinds /\ row.wrapped \in BOOLEAN
    BY DEF Row, Cell
  <1>2. LinkAt(row, c) \in Nat /\ MarksAt(row, c) \in Nat
    BY LinkTyped
  <1>3. (c = LastCol /\ row.wrapped) \in BOOLEAN
    OBVIOUS
  <1>4. QED
    BY <1>1, <1>2, <1>3 DEF Painted, Paint

\* A frame leaves nothing damaged, and the consumer holds the screen.
LEMMA Sends ==
  ASSUME NEW s, Whole(s), NEW u, u = Sent(s)
  PROVE  Whole(u) /\ u.dmg = {}
  <1>1. s \in State /\ s.view \in [0..LastRow -> [0..LastCol -> Paint]] /\ s.rows \in [0..LastRow -> Row]
    BY WholeNearly DEF State
  <1>2. \A r \in 0..LastRow, c \in 0..LastCol : Shown(s, r, c) = Painted(s.rows[r], c)
    BY DEF Shown, Painted
  <1>3. PICK view : view = [r \in 0..LastRow |-> [c \in 0..LastCol |-> IF <<r, c>> \in s.dmg THEN Painted(s.rows[r], c) ELSE s.view[r][c]]]
    OBVIOUS
  <1>4. ASSUME NEW r \in 0..LastRow, NEW c \in 0..LastCol
        PROVE  view[r][c] = Painted(s.rows[r], c)
    <2>1. view[r][c] = IF <<r, c>> \in s.dmg THEN Painted(s.rows[r], c) ELSE s.view[r][c]
      BY <1>3
    <2>2. <<r, c>> \in s.dmg \/ s.view[r][c] = Painted(s.rows[r], c)
      BY DEF Whole, Local, Told
    <2>3. QED
      BY <2>1, <2>2
  <1>5. view \in [0..LastRow -> [0..LastCol -> Paint]]
    <2>1. ASSUME NEW r \in 0..LastRow, NEW c \in 0..LastCol
          PROVE  (IF <<r, c>> \in s.dmg THEN Painted(s.rows[r], c) ELSE s.view[r][c]) \in Paint
      <3>1. s.rows[r] \in Row /\ s.view[r][c] \in Paint
        BY <1>1
      <3>2. Painted(s.rows[r], c) \in Paint
        BY <3>1, PaintTyped
      <3>3. QED
        BY <3>1, <3>2
    <2>2. QED
      BY <1>3, <2>1
  <1>6. u = [s EXCEPT !.view = view, !.dmg = {}]
    <2>1. [r \in 0..LastRow |-> [c \in 0..LastCol |-> IF <<r, c>> \in s.dmg THEN Shown(s, r, c) ELSE s.view[r][c]]] = view
      BY <1>2, <1>3
    <2>2. QED
      BY <2>1 DEF Sent
  <1>7. u \in State /\ u.rows = s.rows /\ u.view = view /\ u.dmg = {} /\ Control(u, s)
    BY <1>1, <1>5, <1>6 DEF State, Control
  <1>8. Local(u, 0, {})
    BY <1>4, <1>7 DEF Local, Told, Whole
  <1>9. Pairs(u, 0, {}) /\ Backed(u, -1) /\ Parked(u) /\ u.top <= u.bottom
    <2>1. \A q \in 0..LastRow, b \in 0..Cols : Sound(u, q, b) <=> Sound(s, q, b)
      BY <1>7 DEF Sound, KindAt
    <2>2. Pairs(u, 0, {})
      BY <2>1 DEF Pairs, Whole
    <2>3. Strict(u) <=> Strict(s)
      BY <1>7 DEF Strict, Control
    <2>4. Backed(u, -1)
      BY <2>3, <1>7 DEF Whole, Backed, Vacant, KindAt
    <2>5. Parked(u)
      BY <2>3, <1>7 DEF Whole, Parked, Vacant, Control
    <2>6. QED
      BY <2>2, <2>4, <2>5, <1>7 DEF Whole, Control
  <1>10. QED
    BY <1>7, <1>8, <1>9 DEF Whole

\* Nothing is damaged between two operations, and the screen is whole.
RowInv == Whole(t) /\ t.dmg = {}

LEMMA DoesInv == ASSUME NEW s, Whole(s), Does(s) PROVE RowInv'
  <1>1. PICK u : u = Sent(s)
    OBVIOUS
  <1>2. Whole(u) /\ u.dmg = {} /\ t' = u
    BY <1>1, Sends DEF Does
  <1>3. QED
    BY <1>2 DEF RowInv

LEMMA RowInitInv == ASSUME RowInit PROVE RowInv
  <1>1. PICK m \in [autowrap : BOOLEAN, insert : BOOLEAN, cluster : BOOLEAN, reverse : BOOLEAN] :
          t = [rows |-> [r \in 0..LastRow |-> BlankRow], back |-> [wrapped |-> FALSE, lead |-> FALSE],
               row |-> 0, col |-> 0, park |-> FALSE, top |-> 0, bottom |-> LastRow, pen |-> 0,
               autowrap |-> m.autowrap, insert |-> m.insert, cluster |-> m.cluster, reverse |-> m.reverse,
               saved |-> [row |-> 0, col |-> 0, park |-> FALSE, pen |-> 0], returned |-> FALSE,
               view |-> [r \in 0..LastRow |-> [c \in 0..LastCol |-> ShownBlank]], dmg |-> {}]
    BY RowAssumption DEF RowInit, NewTerminal
  <1>2. BlankRow \in Row /\ Fit(BlankRow) /\ ~BlankRow.wrapped /\ \A c \in 0..LastCol : BlankRow.cells[c] = Blank
    BY RowsOfBlanks
  <1>3. ASSUME NEW c \in 0..LastCol PROVE Painted(BlankRow, c) = ShownBlank
    <2>1. BlankRow.cells[c] = Blank
      BY <1>2
    <2>2. LinkAt(BlankRow, c) = 0 /\ MarksAt(BlankRow, c) = 0
      BY <2>1, BlankTyped DEF LinkAt, MarksAt
    <2>3. QED
      BY <2>1, <2>2, <1>2, BlankTyped DEF Painted, ShownBlank
  <1>4. ShownBlank \in Paint
    BY DEF ShownBlank, Paint, Kinds
  <1>5. [row |-> 0, col |-> 0, park |-> FALSE, pen |-> 0] \in Saved
    BY Sizes DEF Saved
  <1>6. t \in State
    <2>1. [r \in 0..LastRow |-> BlankRow] \in [0..LastRow -> Row]
      BY <1>2
    <2>2. [r \in 0..LastRow |-> [c \in 0..LastCol |-> ShownBlank]] \in [0..LastRow -> [0..LastCol -> Paint]]
      BY <1>4
    <2>3. {} \in SUBSET ((0..LastRow) \X (0..LastCol)) /\ 0 \in 0..1
      OBVIOUS
    <2>4. QED
      BY <1>1, <1>5, <2>1, <2>2, <2>3, Sizes DEF State
  <1>7. \A q \in 0..LastRow : t.rows[q] = BlankRow
    BY <1>1
  <1>8. Local(t, 0, {})
    <2>1. \A q \in 0..LastRow, c \in 0..LastCol : t.view[q][c] = Painted(t.rows[q], c)
      BY <1>1, <1>3, <1>7
    <2>2. QED
      BY <2>1, <1>2, <1>6, <1>7 DEF Local, Told
  <1>9. \A q \in 0..LastRow, c \in 0..LastCol : KindAt(t, q, c) = "blank"
    BY <1>2, <1>7, BlankTyped DEF KindAt
  <1>10. \A q \in 0..LastRow : ~Vacant(t, q)
    BY <1>2, <1>7, BlankTyped, Sizes DEF Vacant
  <1>11. Pairs(t, 0, {})
    <2>1. SUFFICES ASSUME NEW q \in 0..LastRow, NEW b \in 0..Cols PROVE Sound(t, q, b)
      BY DEF Pairs
    <2>2. (b > 0 => b - 1 \in 0..LastCol) /\ (b < Cols => b \in 0..LastCol)
      BY Sizes
    <2>3. QED
      BY <2>2, <1>9 DEF Sound
  <1>12. t.top <= t.bottom /\ ~t.park /\ t.dmg = {}
    BY <1>1, Sizes
  <1>13. QED
    BY <1>8, <1>10, <1>11, <1>12 DEF RowInv, Whole, Backed, Parked

LEMMA GlyphInv == ASSUME RowInv, Glyph PROVE RowInv'
  <1>1. PICK width \in {1, 2} : Does(WriteGlyph(t, width))
    BY DEF Glyph
  <1>2. PICK s : s = WriteGlyph(t, width)
    OBVIOUS
  <1>3. Whole(s)
    BY <1>2, GlyphWritten DEF RowInv
  <1>4. QED
    BY <1>1, <1>2, <1>3, DoesInv

LEMMA JoinInv ==
  ASSUME RowInv, t.cluster, NEW kind, \E c \in ClusterCol(t) : \E w \in JoinWidths(t, c, kind) : Does(Join(t, c, w))
  PROVE  RowInv'
  <1>1. PICK c \in ClusterCol(t) : \E w \in JoinWidths(t, c, kind) : Does(Join(t, c, w))
    OBVIOUS
  <1>2. PICK w \in JoinWidths(t, c, kind) : Does(Join(t, c, w))
    BY <1>1
  <1>3. PICK s : s = Join(t, c, w)
    OBVIOUS
  <1>4. Whole(s)
    BY <1>3, Joins DEF RowInv
  <1>5. QED
    BY <1>2, <1>3, <1>4, DoesInv

LEMMA MarkInv == ASSUME RowInv, Mark PROVE RowInv'
  <1>1. PICK kind : IF t.cluster /\ ClusterCol(t) # {}
                    THEN \E c \in ClusterCol(t) : \E w \in JoinWidths(t, c, kind) : Does(Join(t, c, w))
                    ELSE Does(PushCombining(t))
    BY DEF Mark
  <1>2. CASE t.cluster /\ ClusterCol(t) # {}
    BY <1>1, <1>2, JoinInv
  <1>3. CASE ~(t.cluster /\ ClusterCol(t) # {})
    <2>1. PICK s : s = PushCombining(t)
      OBVIOUS
    <2>2. Whole(s)
      BY <2>1, Combines DEF RowInv
    <2>3. QED
      BY <1>1, <1>3, <2>1, <2>2, DoesInv
  <1>4. QED
    BY <1>2, <1>3

LEMMA JoinerInv == ASSUME RowInv, Joiner PROVE RowInv'
  <1>1. PICK kind : kind = "joiner"
    OBVIOUS
  <1>2. t.cluster /\ \E c \in ClusterCol(t) : \E w \in JoinWidths(t, c, kind) : Does(Join(t, c, w))
    BY <1>1 DEF Joiner
  <1>3. QED
    BY <1>2, JoinInv

LEMMA FeedInv == ASSUME RowInv, Linefeed \/ ReverseIndex PROVE RowInv'
  <1>1. CASE Linefeed
    <2>1. PICK s : s = [LinefeedInner(t, FALSE) EXCEPT !.park = FALSE]
      OBVIOUS
    <2>2. Whole(s)
      BY <2>1, LineFeeds DEF RowInv
    <2>3. QED
      BY <1>1, <2>1, <2>2, DoesInv DEF Linefeed
  <1>2. CASE ReverseIndex
    <2>1. PICK s : s = Upward(t)
      OBVIOUS
    <2>2. Whole(s)
      BY <2>1, Indexed DEF RowInv
    <2>3. Does(s)
      BY <1>2, <2>1 DEF ReverseIndex, Upward
    <2>4. QED
      BY <2>2, <2>3, DoesInv
  <1>3. QED
    BY <1>1, <1>2

LEMMA CursorInv == ASSUME RowInv, CarriageReturn \/ Backspace \/ Goto PROVE RowInv'
  <1>1. CASE CarriageReturn
    <2>1. PICK s : s = Returns(t)
      OBVIOUS
    <2>2. Whole(s) /\ Does(s)
      BY <1>1, <2>1, Returned DEF RowInv, CarriageReturn, Returns
    <2>3. QED
      BY <2>2, DoesInv
  <1>2. CASE Backspace
    <2>1. PICK s : s = StepBack(t)
      OBVIOUS
    <2>2. Whole(s) /\ Does(s)
      BY <1>2, <2>1, SteppedBack DEF RowInv, Backspace
    <2>3. QED
      BY <2>2, DoesInv
  <1>3. CASE Goto
    <2>1. PICK r \in 0..LastRow, c \in 0..LastCol : Does([t EXCEPT !.row = r, !.col = c, !.park = FALSE])
      BY <1>3 DEF Goto
    <2>2. PICK s : s = Goes(t, r, c)
      OBVIOUS
    <2>3. Does(s)
      BY <2>1, <2>2 DEF Goes
    <2>4. Whole(s)
      BY <2>2, Went DEF RowInv
    <2>5. QED
      BY <2>3, <2>4, DoesInv
  <1>4. QED
    BY <1>1, <1>2, <1>3

LEMMA EraseDisplayInv == ASSUME RowInv, EraseDisplay PROVE RowInv'
  <1>1. Whole(t) /\ t \in State /\ t.row \in 0..LastRow /\ t.col \in 0..LastCol
    BY WholeNearly DEF RowInv, State
  <1>2. CASE Does(ClearRows(EraseRight(t), t.row + 1, LastRow))
    <2>1. PICK v : v = EraseRight(t)
      OBVIOUS
    <2>2. Whole(v)
      BY <1>1, <2>1, RightErased
    <2>3. PICK first : first = t.row + 1
      OBVIOUS
    <2>4. PICK last : last = LastRow
      OBVIOUS
    <2>5. first > last \/ (first \in 0..LastRow /\ last \in 0..LastRow /\ first <= last)
      BY <1>1, <2>3, <2>4, Sizes
    <2>6. PICK s : s = ClearRows(v, first, last)
      OBVIOUS
    <2>7. Whole(s)
      BY <2>2, <2>5, <2>6, RowsErased
    <2>8. QED
      BY <1>2, <2>1, <2>3, <2>4, <2>6, <2>7, DoesInv
  <1>3. CASE Does(LET s == EraseLeft(ClearRows(t, 0, t.row - 1)) IN IF t.col = LastCol THEN EndWrap(s, t.row) ELSE s)
    <2>1. PICK first : first = 0
      OBVIOUS
    <2>2. PICK last : last = t.row - 1
      OBVIOUS
    <2>3. first > last \/ (first \in 0..LastRow /\ last \in 0..LastRow /\ first <= last)
      BY <1>1, <2>1, <2>2, Sizes
    <2>4. PICK v : v = ClearRows(t, first, last)
      OBVIOUS
    <2>5. Whole(v) /\ Control(v, t)
      BY <1>1, <2>3, <2>4, RowsErased
    <2>6. PICK w : w = EraseLeft(v)
      OBVIOUS
    <2>7. Whole(w)
      BY <2>5, <2>6, LeftErased
    <2>8. PICK r \in 0..LastRow : r = t.row
      BY <1>1
    <2>9. PICK s : s = IF t.col = LastCol THEN EndWrap(w, r) ELSE w
      OBVIOUS
    <2>10. Whole(s)
      BY <2>7, <2>9, WrapEndedWhole
    <2>11. Does(s)
      BY <1>3, <2>1, <2>2, <2>4, <2>6, <2>8, <2>9
    <2>12. QED
      BY <2>10, <2>11, DoesInv
  <1>4. CASE Does(ClearRows(t, 0, LastRow))
    <2>1. PICK first : first = 0
      OBVIOUS
    <2>2. PICK last : last = LastRow
      OBVIOUS
    <2>3. first > last \/ (first \in 0..LastRow /\ last \in 0..LastRow /\ first <= last)
      BY <2>1, <2>2, Sizes
    <2>4. PICK s : s = ClearRows(t, first, last)
      OBVIOUS
    <2>5. Whole(s)
      BY <1>1, <2>3, <2>4, RowsErased
    <2>6. QED
      BY <1>4, <2>1, <2>2, <2>4, <2>5, DoesInv
  <1>5. QED
    BY <1>2, <1>3, <1>4 DEF EraseDisplay

LEMMA EraseLineInv == ASSUME RowInv, EraseLine \/ EraseChars PROVE RowInv'
  <1>1. Whole(t) /\ t \in State /\ t.row \in 0..LastRow
    BY WholeNearly DEF RowInv, State
  <1>2. CASE Does(EraseRight(t))
    <2>1. PICK s : s = EraseRight(t)
      OBVIOUS
    <2>2. Whole(s)
      BY <1>1, <2>1, RightErased
    <2>3. QED
      BY <1>2, <2>1, <2>2, DoesInv
  <1>3. CASE Does(EraseLeft(t))
    <2>1. PICK s : s = EraseLeft(t)
      OBVIOUS
    <2>2. Whole(s)
      BY <1>1, <2>1, LeftErased
    <2>3. QED
      BY <1>3, <2>1, <2>2, DoesInv
  <1>4. CASE Does(ClearRows(t, t.row, t.row))
    <2>1. PICK r : r = t.row
      OBVIOUS
    <2>2. r > r \/ (r \in 0..LastRow /\ r \in 0..LastRow /\ r <= r)
      BY <1>1, <2>1
    <2>3. PICK s : s = ClearRows(t, r, r)
      OBVIOUS
    <2>4. Whole(s)
      BY <1>1, <2>2, <2>3, RowsErased
    <2>5. QED
      BY <1>4, <2>1, <2>3, <2>4, DoesInv
  <1>5. CASE EraseChars
    <2>1. PICK n \in 1..Cols : Does(EndWrap(ClearCells(t, t.row, t.col, Least(t.col + n, Cols)), t.row))
      BY <1>5 DEF EraseChars
    <2>2. PICK s : s = EndWrap(ClearCells(t, t.row, t.col, Least(t.col + n, Cols)), t.row)
      OBVIOUS
    <2>3. Whole(s)
      BY <1>1, <2>2, CharsErased
    <2>4. QED
      BY <2>1, <2>2, <2>3, DoesInv
  <1>6. QED
    BY <1>2, <1>3, <1>4, <1>5 DEF EraseLine

LEMMA ShiftInv == ASSUME RowInv, InsertChars \/ DeleteChars PROVE RowInv'
  <1>1. Whole(t)
    BY DEF RowInv
  <1>2. CASE InsertChars
    <2>1. PICK n \in 1..Cols : Does(InsertCharsAt(t, n))
      BY <1>2 DEF InsertChars
    <2>2. PICK s : s = InsertCharsAt(t, n)
      OBVIOUS
    <2>3. Whole(s)
      BY <1>1, <2>2, InsertsWhole
    <2>4. QED
      BY <2>1, <2>2, <2>3, DoesInv
  <1>3. CASE DeleteChars
    <2>1. PICK n \in 1..Cols : Does(DeleteCharsAt(t, n))
      BY <1>3 DEF DeleteChars
    <2>2. PICK s : s = DeleteCharsAt(t, n)
      OBVIOUS
    <2>3. Whole(s)
      BY <1>1, <2>2, DeletesWhole
    <2>4. QED
      BY <2>1, <2>2, <2>3, DoesInv
  <1>4. QED
    BY <1>2, <1>3

LEMMA ScrollInv == ASSUME RowInv, ScrollLines \/ InsertOrDeleteLines PROVE RowInv'
  <1>1. /\ Whole(t) /\ t \in State /\ t.row \in 0..LastRow /\ t.top \in 0..LastRow /\ t.bottom \in 0..LastRow
        /\ t.top <= t.bottom
    BY WholeNearly DEF RowInv, Whole, State
  <1>2. PICK bottom : bottom = t.bottom
    OBVIOUS
  <1>3. CASE ScrollLines
    <2>1. PICK n \in 1..2, down \in BOOLEAN : Does(ScrollRegionLines(t, t.top, t.bottom, n, down))
      BY <1>3 DEF ScrollLines
    <2>2. PICK top : top = t.top
      OBVIOUS
    <2>3. Region(top, bottom, down) /\ n \in Nat
      BY <1>1, <1>2, <2>2 DEF Region
    <2>4. PICK s : s = ScrollRegionLines(t, top, bottom, n, down)
      OBVIOUS
    <2>5. Whole(s)
      BY <1>1, <1>2, <2>3, <2>4, LinesScroll
    <2>6. QED
      BY <1>2, <2>1, <2>2, <2>4, <2>5, DoesInv
  <1>4. CASE InsertOrDeleteLines
    <2>1. t.row \in t.top..t.bottom
      BY <1>4 DEF InsertOrDeleteLines
    <2>2. PICK down \in BOOLEAN : Does([ScrollRegionLines(t, t.row, t.bottom, 1, down) EXCEPT !.park = FALSE])
      BY <1>4 DEF InsertOrDeleteLines
    <2>3. PICK top : top = t.row
      OBVIOUS
    <2>4. PICK n \in Nat : n = 1
      OBVIOUS
    <2>5. Region(top, bottom, down)
      BY <1>1, <1>2, <2>1, <2>3 DEF Region
    <2>6. PICK v : v = ScrollRegionLines(t, top, bottom, n, down)
      OBVIOUS
    <2>7. Whole(v)
      BY <1>1, <1>2, <2>5, <2>6, LinesScroll
    <2>8. PICK s : s = Unpark(v)
      OBVIOUS
    <2>9. PICK y : y = -1
      OBVIOUS
    <2>10. Nearly(v, y)
      BY <2>7, <2>9, WholeNearly
    <2>11. Nearly(s, y) /\ ~s.park
      BY <2>8, <2>10, ParkLeft
    <2>12. Whole(s)
      BY <2>9, <2>11, NearlyWhole
    <2>13. Does(s)
      BY <1>2, <2>2, <2>3, <2>4, <2>6, <2>8 DEF Unpark
    <2>14. QED
      BY <2>12, <2>13, DoesInv
  <1>5. QED
    BY <1>3, <1>4

LEMMA SettingInv ==
  ASSUME RowInv, SetScrollRegion \/ SetAutowrap \/ SetInsert \/ SetPen \/ SaveCursor \/ RestoreCursor
  PROVE  RowInv'
  <1>1. Whole(t)
    BY DEF RowInv
  <1>2. CASE SetScrollRegion
    <2>1. PICK top \in 0..LastRow, bottom \in 0..LastRow :
            top < bottom /\ Does([t EXCEPT !.top = top, !.bottom = bottom, !.row = 0, !.col = 0, !.park = FALSE])
      BY <1>2 DEF SetScrollRegion
    <2>2. PICK s : s = Margins(t, top, bottom)
      OBVIOUS
    <2>3. Whole(s)
      BY <1>1, <2>1, <2>2, MarginsSet
    <2>4. QED
      BY <2>1, <2>2, <2>3, DoesInv DEF Margins
  <1>3. CASE SetAutowrap \/ SetInsert \/ SetPen \/ SaveCursor
    <2>1. PICK s : ModeSet(s, t) /\ Does(s)
      BY <1>3 DEF SetAutowrap, SetInsert, SetPen, SaveCursor, ModeSet
    <2>2. Whole(s)
      BY <1>1, <2>1, ModesSet
    <2>3. QED
      BY <2>1, <2>2, DoesInv
  <1>4. CASE RestoreCursor
    <2>1. PICK s : s = Restores(t)
      OBVIOUS
    <2>2. Whole(s)
      BY <1>1, <2>1, Restored
    <2>3. QED
      BY <1>4, <2>1, <2>2, DoesInv DEF RestoreCursor, Restores
  <1>5. QED
    BY <1>2, <1>3, <1>4

LEMMA RowNextInv == ASSUME RowInv, [RowNext]_rowVars PROVE RowInv'
  <1>1. CASE UNCHANGED rowVars
    BY <1>1 DEF rowVars, RowInv
  <1>2. CASE RowNext
    BY <1>2, GlyphInv, MarkInv, JoinerInv, FeedInv, CursorInv, EraseDisplayInv, EraseLineInv, ShiftInv, ScrollInv, SettingInv
       DEF RowNext
  <1>3. QED
    BY <1>1, <1>2

\* After any sequence of verbs the invariant of the proofs holds: rows whose maps fit their
\* bits, whole pairs, vacated columns before the pair that wrapped, and a consumer that
\* holds what is not damaged (term.rs, grid.rs).
THEOREM RowInvHolds == RowSpec => []RowInv
  <1>1. RowInit => RowInv
    BY RowInitInv
  <1>2. RowInv /\ [RowNext]_rowVars => RowInv'
    BY RowNextInv
  <1>3. QED
    BY <1>1, <1>2, PTL DEF RowSpec

LEMMA InvPairs == ASSUME RowInv PROVE PairsAreWhole
  <1>1. Whole(t)
    BY DEF RowInv
  <1>2. NoHalfPair
    <2>1. SUFFICES ASSUME NEW r \in 0..LastRow, NEW c \in 0..LastCol
                   PROVE  /\ KindAt(t, r, c) = "wide" => c < LastCol /\ KindAt(t, r, c + 1) = "spacer"
                          /\ KindAt(t, r, c) = "spacer" => c > 0 /\ KindAt(t, r, c - 1) = "wide"
      BY DEF NoHalfPair, Kind, KindAt
    <2>2. PICK a \in 0..Cols : a = c
      BY Sizes
    <2>3. PICK b \in 0..Cols : b = c + 1
      BY Sizes
    <2>4. Sound(t, r, a) /\ Sound(t, r, b)
      BY <1>1 DEF Whole, Pairs
    <2>5. b > 0 /\ b - 1 = c /\ (b < Cols <=> c < LastCol) /\ a < Cols
      BY <2>2, <2>3, Sizes
    <2>6. KindAt(t, r, c) = "wide" => b < Cols /\ KindAt(t, r, b) = "spacer"
      BY <2>4, <2>5 DEF Sound
    <2>7. KindAt(t, r, c) = "spacer" => a > 0 /\ KindAt(t, r, a - 1) = "wide"
      BY <2>2, <2>4, <2>5 DEF Sound
    <2>8. QED
      BY <2>2, <2>3, <2>5, <2>6, <2>7
  <1>3. ArtefactIsOfAWrap
    BY <1>1 DEF ArtefactIsOfAWrap, Kind, Whole, Local, Fit, LeadFits
  <1>4. VacancyIsBacked
    <2>1. SUFFICES ASSUME ~t.cluster, ~t.returned, Cols > 2, NEW r \in 0..LastRow, Vacant(t, r)
                   PROVE  r < LastRow /\ KindAt(t, r + 1, 0) = "wide"
      BY DEF VacancyIsBacked, Vacant, Kind, KindAt
    <2>2. r # -1 /\ Strict(t)
      BY <2>1 DEF Strict
    <2>3. QED
      BY <1>1, <2>1, <2>2 DEF Whole, Backed
  <1>5. QED
    BY <1>2, <1>3, <1>4 DEF PairsAreWhole

LEMMA InvTold == ASSUME RowInv PROVE CellsAreTold
  <1>1. Local(t, 0, {}) /\ t.dmg = {}
    BY DEF RowInv, Whole
  <1>2. AttributesFollowTheirCell
    BY <1>1 DEF AttributesFollowTheirCell, Local, Fit, FitAt, LinkAt, MarksAt
  <1>3. ViewIsTheScreen
    <2>1. \A r \in 0..LastRow, c \in 0..LastCol : t.view[r][c] = Painted(t.rows[r], c)
      BY <1>1 DEF Local, Told
    <2>2. QED
      BY <2>1 DEF ViewIsTheScreen, Shown, Painted
  <1>4. QED
    BY <1>2, <1>3 DEF CellsAreTold

\* The repairs around a wide pair and the artefacts of a wrap (term.rs): on a screen of any
\* size no sequence of verbs leaves half of a pair, nor a column marked as vacated that is not
\* at the end of a wrapped row, nor (with the exceptions VacancyIsBacked names) one that is
\* not followed by the pair that did not fit.
THEOREM PairsStayWhole == RowSpec => []PairsAreWhole
  <1>1. RowInv => PairsAreWhole
    BY InvPairs
  <1>2. QED
    BY <1>1, RowInvHolds, PTL

\* The side maps and the damage (grid.rs, term.rs): every cell reads the link and the marks that
\* were written with it, wherever it was shifted, and a consumer that is sent only the damaged
\* cells and the scrolls holds the screen.
THEOREM CellsStayTold == RowSpec => []CellsAreTold
  <1>1. RowInv => CellsAreTold
    BY InvTold
  <1>2. QED
    BY <1>1, RowInvHolds, PTL

----------------------------------------------------------------------------
(* PackedCell: the bits in use, and what every reader answers from them. *)
\* Which bit of which word each flag is read from.
Answers(F, s, cb, fb, bb) ==
  /\ F \subseteq 0..10
  /\ 0 \in F <=> 27 \in fb
  /\ 1 \in F <=> 27 \in bb
  /\ 2 \in F <=> 26 \in bb
  /\ 3 \in F <=> s # 0
  /\ 4 \in F <=> 29 \in fb
  /\ 5 \in F <=> 26 \in fb
  /\ 6 \in F <=> 30 \in fb
  /\ 7 \in F <=> 31 \in fb
  /\ 8 \in F <=> 22 \in cb
  /\ 9 \in F <=> 23 \in cb
  /\ 10 \in F <=> 24 \in cb
\* The ten answers of a cell.
Answer(c, f, b, style, flags, combined, leading, linked, ucolored) ==
  [c |-> c, fg |-> f, bg |-> b, style |-> style, flags |-> flags, combined |-> combined, leading |-> leading,
   linked |-> linked, ucolored |-> ucolored,
   blank |-> c = Space /\ ~combined /\ ~leading /\ flags \cap {WIDE_CHAR, WIDE_CHAR_SPACER, WRAPLINE} = {}]
\* The words have no field but their own, no bit but those in use, and a known style.
SoundWords(c, f, b) ==
  /\ c = [cp |-> c.cp, bits |-> c.bits]
  /\ f = [mode |-> f.mode, payload |-> f.payload, bits |-> f.bits]
  /\ b = [mode |-> b.mode, payload |-> b.payload, bits |-> b.bits]
  /\ c.bits \in SUBSET (21..28) /\ f.bits \in SUBSET (24..31) /\ b.bits \in SUBSET (24..31)
  /\ StyleOf(c) \in 0..5
AnswerOf(c, f, b) ==
  Answer(c.cp, UnpackColor(f), UnpackColor(b), StyleOf(c), FlagsOf(c, f, b) \ StyleField, C_COMBINED \in c.bits,
         C_LEADING_SPACER \in c.bits, BG_LINK \in b.bits, BG_UCOLOR \in b.bits)
CellInv == SoundWords(content, fg, bg) /\ attrs = AnswerOf(content, fg, bg)

\* A bit is where it was moved to.
LEMMA MovedBit ==
  ASSUME NEW S \in SUBSET Int, NEW k \in Int, NEW b \in Int
  PROVE  b \in Moved(S, k) <=> b - k \in S
  BY DEF Moved

LEMMA MovedBits ==
  ASSUME NEW S \in SUBSET Int, NEW k \in Int
  PROVE  Moved(S, k) \in SUBSET Int
  BY DEF Moved

\* One set of flags only answers to the bits.
LEMMA SameFlags ==
  ASSUME NEW F, NEW G, NEW s, NEW cb, NEW fb, NEW bb, Answers(F, s, cb, fb, bb), Answers(G, s, cb, fb, bb)
  PROVE  F = G
  <1>1. \A x \in 0..10 : x = 0 \/ x = 1 \/ x = 2 \/ x = 3 \/ x = 4 \/ x = 5 \/ x = 6 \/ x = 7 \/ x = 8 \/ x = 9 \/ x = 10
    OBVIOUS
  <1>2. \A x \in 0..10 : x \in F <=> x \in G
    BY <1>1 DEF Answers
  <1>3. F \subseteq 0..10 /\ G \subseteq 0..10
    BY DEF Answers
  <1>4. QED
    BY <1>2, <1>3

\* The three bits of a style, and the style of three bits.
LEMMA StyleNumber ==
  ASSUME NEW S \in SUBSET Int
  PROVE  Number(Moved(S \cap StyleBits, -26))
           = (IF 26 \in S THEN 1 ELSE 0) + (IF 27 \in S THEN 2 ELSE 0) + (IF 28 \in S THEN 4 ELSE 0)
  <1> DEFINE T == S \cap StyleBits
  <1>1. T \in SUBSET Int /\ (26 \in T <=> 26 \in S) /\ (27 \in T <=> 27 \in S) /\ (28 \in T <=> 28 \in S)
    BY DEF StyleBits
  <1>2. (0 \in Moved(T, -26) <=> 0 - (-26) \in T) /\ (1 \in Moved(T, -26) <=> 1 - (-26) \in T)
        /\ (2 \in Moved(T, -26) <=> 2 - (-26) \in T)
    BY <1>1, MovedBit
  <1>3. 0 - (-26) = 26 /\ 1 - (-26) = 27 /\ 2 - (-26) = 28
    OBVIOUS
  <1>4. (0 \in Moved(T, -26) <=> 26 \in S) /\ (1 \in Moved(T, -26) <=> 27 \in S) /\ (2 \in Moved(T, -26) <=> 28 \in S)
    BY <1>1, <1>2, <1>3
  <1> HIDE DEF T
  <1>5. Number(Moved(T, -26)) = (IF 26 \in S THEN 1 ELSE 0) + (IF 27 \in S THEN 2 ELSE 0) + (IF 28 \in S THEN 4 ELSE 0)
    BY <1>4 DEF Number
  <1>6. QED
    BY <1>5 DEF T

LEMMA BitsOf ==
  ASSUME NEW n \in 0..5
  PROVE  /\ Bits(n) \in SUBSET (0..2)
         /\ 0 \in Bits(n) <=> n \in {1, 3, 5}
         /\ 1 \in Bits(n) <=> n \in {2, 3}
         /\ 2 \in Bits(n) <=> n \in {4, 5}
  <1>1. n = 0 \/ n = 1 \/ n = 2 \/ n = 3 \/ n = 4 \/ n = 5
    OBVIOUS
  <1>2. QED
    BY <1>1 DEF Bits

LEMMA StyleBitsOf ==
  ASSUME NEW n \in 0..5
  PROVE  /\ Moved(Bits(n), 26) \in SUBSET (26..28)
         /\ 26 \in Moved(Bits(n), 26) <=> n \in {1, 3, 5}
         /\ 27 \in Moved(Bits(n), 26) <=> n \in {2, 3}
         /\ 28 \in Moved(Bits(n), 26) <=> n \in {4, 5}
         /\ Moved(Bits(n), 26) = {} <=> n = 0
  <1>1. /\ Bits(n) \in SUBSET (0..2)
        /\ 0 \in Bits(n) <=> n \in {1, 3, 5}
        /\ 1 \in Bits(n) <=> n \in {2, 3}
        /\ 2 \in Bits(n) <=> n \in {4, 5}
    BY BitsOf
  <1>2. Bits(n) \in SUBSET Int
    BY <1>1
  <1>3. Moved(Bits(n), 26) \in SUBSET (26..28)
    BY <1>1 DEF Moved
  <1>4. /\ 26 \in Moved(Bits(n), 26) <=> 26 - 26 \in Bits(n)
        /\ 27 \in Moved(Bits(n), 26) <=> 27 - 26 \in Bits(n)
        /\ 28 \in Moved(Bits(n), 26) <=> 28 - 26 \in Bits(n)
    BY <1>2, MovedBit
  <1>5. 26 - 26 = 0 /\ 27 - 26 = 1 /\ 28 - 26 = 2
    OBVIOUS
  <1>6. /\ 26 \in Moved(Bits(n), 26) <=> n \in {1, 3, 5}
        /\ 27 \in Moved(Bits(n), 26) <=> n \in {2, 3}
        /\ 28 \in Moved(Bits(n), 26) <=> n \in {4, 5}
    BY <1>1, <1>4, <1>5
  <1>7. \A x \in 26..28 : x = 26 \/ x = 27 \/ x = 28
    OBVIOUS
  <1>8. n \in {1, 3, 5} \/ n \in {2, 3} \/ n \in {4, 5} <=> n # 0
    OBVIOUS
  <1>9. Moved(Bits(n), 26) = {} <=> n = 0
    BY <1>3, <1>6, <1>7, <1>8
  <1>10. QED
    BY <1>3, <1>6, <1>9

\* A word with the bits of a style is read as that style.
LEMMA StyleTold ==
  ASSUME NEW n \in 0..5, NEW B \in SUBSET Int, B \cap StyleBits = Moved(Bits(n), 26)
  PROVE  Number(Moved(B \cap StyleBits, -26)) = n
  <1>1. (26 \in B <=> n \in {1, 3, 5}) /\ (27 \in B <=> n \in {2, 3}) /\ (28 \in B <=> n \in {4, 5})
    BY StyleBitsOf DEF StyleBits
  <1>2. Number(Moved(B \cap StyleBits, -26))
           = (IF 26 \in B THEN 1 ELSE 0) + (IF 27 \in B THEN 2 ELSE 0) + (IF 28 \in B THEN 4 ELSE 0)
    BY StyleNumber
  <1>3. n = 0 \/ n = 1 \/ n = 2 \/ n = 3 \/ n = 4 \/ n = 5
    OBVIOUS
  <1>4. QED
    BY <1>1, <1>2, <1>3

\* The style that a caller's flags name.
LEMMA StyleNamed ==
  ASSUME NEW f \in SUBSET (0..13)
  PROVE  NormalStyle(f) \in 0..5 /\ NormalStyle(f) \in {0, 1, 2, 3, 4, 5}
  BY DEF NormalStyle, StyleOfFlags, FromBits, Number

LEMMA StyleItself ==
  ASSUME NEW n \in 0..5
  PROVE  FromBits(n) = n
  BY DEF FromBits

\* flags: every reader's bit.
LEMMA FlagsAnswer ==
  ASSUME NEW c, NEW f, NEW b, c.bits \in SUBSET (21..28), f.bits \in SUBSET (24..31), b.bits \in SUBSET (24..31)
  PROVE  Answers(FlagsOf(c, f, b) \ StyleField, StyleOf(c), c.bits, f.bits, b.bits)
  <1> DEFINE M == Moved(c.bits \cap ContentMarkers, -14)
  <1> DEFINE S == Moved(c.bits \cap StyleBits, -15)
  <1> DEFINE U == IF StyleOf(c) = 0 THEN {} ELSE {UNDERLINE}
  <1> DEFINE F == FlagsOf(c, f, b) \ StyleField
  <1>1. S \in SUBSET (11..13)
    BY DEF Moved, StyleBits
  <1>2. M \in SUBSET (8..10) /\ (8 \in M <=> 22 \in c.bits) /\ (9 \in M <=> 23 \in c.bits) /\ (10 \in M <=> 24 \in c.bits)
    <2>1. M \in SUBSET (8..10)
      BY DEF Moved, ContentMarkers
    <2>2. c.bits \cap ContentMarkers \in SUBSET Int
      OBVIOUS
    <2>3. /\ 8 \in M <=> 8 - (-14) \in c.bits \cap ContentMarkers
          /\ 9 \in M <=> 9 - (-14) \in c.bits \cap ContentMarkers
          /\ 10 \in M <=> 10 - (-14) \in c.bits \cap ContentMarkers
      BY <2>2, MovedBit
    <2>4. 8 - (-14) = 22 /\ 9 - (-14) = 23 /\ 10 - (-14) = 24
      OBVIOUS
    <2>5. QED
      BY <2>1, <2>3, <2>4 DEF ContentMarkers
  <1> DEFINE A0 == Moved(f.bits \cap {27}, -27)
  <1> DEFINE A5 == Moved(f.bits \cap {26}, -21)
  <1> DEFINE A4 == Moved(f.bits \cap {29}, -25)
  <1> DEFINE A67 == Moved(f.bits \cap {30, 31}, -24)
  <1> DEFINE A2 == Moved(b.bits \cap {26}, -24)
  <1> DEFINE A1 == Moved(b.bits \cap {27}, -26)
  <1>3. A0 = IF 27 \in f.bits THEN {0} ELSE {}
    BY DEF Moved
  <1>4. A5 = IF 26 \in f.bits THEN {5} ELSE {}
    BY DEF Moved
  <1>5. A4 = IF 29 \in f.bits THEN {4} ELSE {}
    BY DEF Moved
  <1>6. A67 = (IF 30 \in f.bits THEN {6} ELSE {}) \cup (IF 31 \in f.bits THEN {7} ELSE {})
    BY DEF Moved
  <1>7. A2 = IF 26 \in b.bits THEN {2} ELSE {}
    BY DEF Moved
  <1>8. A1 = IF 27 \in b.bits THEN {1} ELSE {}
    BY DEF Moved
  <1>9. FlagsOf(c, f, b) = M \cup S \cup U \cup A0 \cup A5 \cup A4 \cup A67 \cup A2 \cup A1
    BY DEF FlagsOf
  <1> HIDE DEF A0, A5, A4, A67, A2, A1
  <1> HIDE DEF M, S
  <1>10. FlagsOf(c, f, b) \subseteq 0..13
    BY <1>1, <1>2, <1>3, <1>4, <1>5, <1>6, <1>7, <1>8, <1>9 DEF UNDERLINE
  <1>11. F \subseteq 0..10
    BY <1>10 DEF StyleField
  <1>12. \A x \in 0..10 : x \in F <=> x \in FlagsOf(c, f, b)
    BY DEF StyleField
  <1>13. \A x \in 0..10 : x \notin S
    BY <1>1
  <1>14. \A x \in 0..7 : x \notin M
    BY <1>2
  <1>15. QED
    BY <1>2, <1>3, <1>4, <1>5, <1>6, <1>7, <1>8, <1>9, <1>11, <1>12, <1>13, <1>14 DEF Answers, UNDERLINE

\* flag_words: the bits a caller's flags become, and no others.
LEMMA WordsOf ==
  ASSUME NEW f \in SUBSET (0..13)
  PROVE  /\ FlagWords(f).content \in SUBSET (22..28)
         /\ FlagWords(f).fg \in SUBSET (24..31) /\ FlagWords(f).bg \in SUBSET {26, 27}
         /\ FlagWords(f).content \cap StyleBits = Moved(Bits(NormalStyle(f)), 26)
         /\ 22 \in FlagWords(f).content <=> 8 \in f
         /\ 23 \in FlagWords(f).content <=> 9 \in f
         /\ 24 \in FlagWords(f).content <=> 10 \in f
         /\ 27 \in FlagWords(f).fg <=> 0 \in f
         /\ 26 \in FlagWords(f).fg <=> 5 \in f
         /\ 29 \in FlagWords(f).fg <=> 4 \in f
         /\ 30 \in FlagWords(f).fg <=> 6 \in f
         /\ 31 \in FlagWords(f).fg <=> 7 \in f
         /\ 26 \in FlagWords(f).bg <=> 2 \in f
         /\ 27 \in FlagWords(f).bg <=> 1 \in f
  <1> DEFINE M == Moved(f \cap {WIDE_CHAR, WIDE_CHAR_SPACER, WRAPLINE}, 14)
  <1> DEFINE S == Moved(Bits(NormalStyle(f)), 26)
  <1>1. S \in SUBSET (26..28)
    BY StyleNamed, StyleBitsOf
  <1>2. M = (IF 8 \in f THEN {22} ELSE {}) \cup (IF 9 \in f THEN {23} ELSE {}) \cup (IF 10 \in f THEN {24} ELSE {})
    BY DEF Moved, WIDE_CHAR, WIDE_CHAR_SPACER, WRAPLINE
  <1>3. Moved(f \cap {BOLD}, 27) = IF 0 \in f THEN {27} ELSE {}
    BY DEF Moved, BOLD
  <1>4. Moved(f \cap {INVERSE}, 21) = IF 5 \in f THEN {26} ELSE {}
    BY DEF Moved, INVERSE
  <1>5. Moved(f \cap {BLINK}, 25) = IF 4 \in f THEN {29} ELSE {}
    BY DEF Moved, BLINK
  <1>6. Moved(f \cap {HIDDEN, STRIKETHROUGH}, 24) = (IF 6 \in f THEN {30} ELSE {}) \cup (IF 7 \in f THEN {31} ELSE {})
    BY DEF Moved, HIDDEN, STRIKETHROUGH
  <1>7. Moved(f \cap {ITALIC}, 24) = IF 2 \in f THEN {26} ELSE {}
    BY DEF Moved, ITALIC
  <1>8. Moved(f \cap {DIM}, 26) = IF 1 \in f THEN {27} ELSE {}
    BY DEF Moved, DIM
  <1> HIDE DEF S
  <1>9. FlagWords(f).content = ((IF 8 \in f THEN {22} ELSE {}) \cup (IF 9 \in f THEN {23} ELSE {}) \cup (IF 10 \in f THEN {24} ELSE {})) \cup S
    BY <1>2 DEF FlagWords, S
  <1>10. FlagWords(f).fg = (IF 0 \in f THEN {27} ELSE {}) \cup (IF 5 \in f THEN {26} ELSE {}) \cup (IF 4 \in f THEN {29} ELSE {})
                            \cup ((IF 6 \in f THEN {30} ELSE {}) \cup (IF 7 \in f THEN {31} ELSE {}))
    BY <1>3, <1>4, <1>5, <1>6 DEF FlagWords
  <1>11. FlagWords(f).bg = (IF 2 \in f THEN {26} ELSE {}) \cup (IF 1 \in f THEN {27} ELSE {})
    BY <1>7, <1>8 DEF FlagWords
  <1>12. FlagWords(f).content \cap StyleBits = S
    <2>1. 22 \notin StyleBits /\ 23 \notin StyleBits /\ 24 \notin StyleBits /\ S \subseteq StyleBits
      BY <1>1 DEF StyleBits
    <2>2. QED
      BY <1>9, <2>1
  <1>13. QED
    BY <1>1, <1>9, <1>10, <1>11, <1>12 DEF S

LEMMA SameAnswers ==
  ASSUME NEW c1, NEW c2, NEW f1, NEW f2, NEW b1, NEW b2, NEW s1, NEW s2, NEW k1, NEW k2, NEW m1, NEW m2,
         NEW l1, NEW l2, NEW i1, NEW i2, NEW u1, NEW u2,
         c1 = c2, f1 = f2, b1 = b2, s1 = s2, k1 = k2, m1 = m2, l1 = l2, i1 = i2, u1 = u2
  PROVE  Answer(c1, f1, b1, s1, k1, m1, l1, i1, u1) = Answer(c2, f2, b2, s2, k2, m2, l2, i2, u2)
  OBVIOUS

\* is_blank: a space with no marker.
LEMMA BlankTold ==
  ASSUME NEW c, NEW f, NEW b, SoundWords(c, f, b)
  PROVE  IsBlank(c) = (c.cp = Space /\ C_COMBINED \notin c.bits /\ C_LEADING_SPACER \notin c.bits
                       /\ (FlagsOf(c, f, b) \ StyleField) \cap {WIDE_CHAR, WIDE_CHAR_SPACER, WRAPLINE} = {})
  <1> DEFINE F == FlagsOf(c, f, b) \ StyleField
  <1>1. (8 \in F <=> 22 \in c.bits) /\ (9 \in F <=> 23 \in c.bits) /\ (10 \in F <=> 24 \in c.bits)
    BY FlagsAnswer DEF SoundWords, Answers
  <1> HIDE DEF F
  <1>2. F \cap {WIDE_CHAR, WIDE_CHAR_SPACER, WRAPLINE} = {} <=> 8 \notin F /\ 9 \notin F /\ 10 \notin F
    BY DEF WIDE_CHAR, WIDE_CHAR_SPACER, WRAPLINE
  <1>3. c.bits \cap (ContentMarkers \cup {C_COMBINED, C_LEADING_SPACER}) = {}
          <=> 22 \notin c.bits /\ 23 \notin c.bits /\ 24 \notin c.bits /\ C_COMBINED \notin c.bits /\ C_LEADING_SPACER \notin c.bits
    <2>1. ContentMarkers = {22, 23, 24}
      BY DEF ContentMarkers
    <2>2. QED
      BY <2>1 DEF C_COMBINED, C_LEADING_SPACER
  <1>4. QED
    BY <1>1, <1>2, <1>3 DEF IsBlank, F

\* The readers answer what the words say.
LEMMA ReadAnswers ==
  ASSUME SoundWords(content, fg, bg)
  PROVE  Read = AnswerOf(content, fg, bg)
  <1>1. FromBits(StyleOf(content)) = StyleOf(content)
    BY StyleItself DEF SoundWords
  <1>2. QED
    BY <1>1, BlankTold DEF Read, AnswerOf, Answer

\* Blankness, of a cell with any other answers.
Claim(c, f, b, style, flags, combined, leading, linked, ucolored, blank) ==
  [c |-> c, fg |-> f, bg |-> b, style |-> style, flags |-> flags, combined |-> combined, leading |-> leading,
   linked |-> linked, ucolored |-> ucolored, blank |-> blank]

LEMMA ClaimBlank ==
  ASSUME NEW c, NEW f, NEW b, NEW style, NEW flags, NEW combined, NEW leading, NEW linked, NEW ucolored, NEW blank, NEW x, NEW a,
         a = Claim(c, f, b, style, flags, combined, leading, linked, ucolored, blank)
  PROVE  /\ [a EXCEPT !.blank = x] = Claim(c, f, b, style, flags, combined, leading, linked, ucolored, x)
  BY DEF Claim

LEMMA ClaimReads ==
  ASSUME NEW c, NEW f, NEW b, NEW style, NEW flags, NEW combined, NEW leading, NEW linked, NEW ucolored, NEW blank, NEW x, NEW a,
         a = Claim(c, f, b, style, flags, combined, leading, linked, ucolored, blank)
  PROVE  /\ a.style = style /\ a.flags = flags
         /\ a.c = c /\ a.combined = combined /\ a.leading = leading
  BY DEF Claim

\* A promise is an answer.
LEMMA AnswerBlanked ==
  ASSUME NEW c, NEW f, NEW b, NEW style, NEW flags, NEW combined, NEW leading, NEW linked, NEW ucolored, NEW blank, NEW a,
         a = Claim(c, f, b, style, flags, combined, leading, linked, ucolored, blank)
  PROVE  Blankness(a) = Answer(c, f, b, style, flags, combined, leading, linked, ucolored)
  <1> DEFINE v == a.c = Space /\ ~a.combined /\ ~a.leading /\ a.flags \cap {WIDE_CHAR, WIDE_CHAR_SPACER, WRAPLINE} = {}
  <1> DEFINE w == c = Space /\ ~combined /\ ~leading /\ flags \cap {WIDE_CHAR, WIDE_CHAR_SPACER, WRAPLINE} = {}
  <1>1. a.flags = flags /\ a.c = c /\ a.combined = combined /\ a.leading = leading
    BY ClaimReads
  <1>2. v = w
    BY <1>1
  <1>3. Blankness(a) = [a EXCEPT !.blank = v]
    BY DEF Blankness
  <1>4. Answer(c, f, b, style, flags, combined, leading, linked, ucolored)
          = Claim(c, f, b, style, flags, combined, leading, linked, ucolored, w)
    BY DEF Answer, Claim
  <1> HIDE DEF v, w
  <1>5. [a EXCEPT !.blank = v] = Claim(c, f, b, style, flags, combined, leading, linked, ucolored, v)
    BY ClaimBlank
  <1>6. QED
    BY <1>2, <1>3, <1>4, <1>5

LEMMA AnswersClaim ==
  ASSUME NEW c, NEW f, NEW b, NEW style, NEW flags, NEW combined, NEW leading, NEW linked, NEW ucolored
  PROVE  Answer(c, f, b, style, flags, combined, leading, linked, ucolored)
           = Claim(c, f, b, style, flags, combined, leading, linked, ucolored,
                   c = Space /\ ~combined /\ ~leading /\ flags \cap {WIDE_CHAR, WIDE_CHAR_SPACER, WRAPLINE} = {})
  BY DEF Answer, Claim

\* A promise that changes one answer changes no other but blankness.
LEMMA AnswersC ==
  ASSUME NEW c, NEW f, NEW b, NEW style, NEW flags, NEW combined, NEW leading, NEW linked, NEW ucolored, NEW x, NEW a,
         a = Answer(c, f, b, style, flags, combined, leading, linked, ucolored)
  PROVE  Blankness([a EXCEPT !.c = x]) = Answer(x, f, b, style, flags, combined, leading, linked, ucolored)
  <1>1. PICK k : k = (c = Space /\ ~combined /\ ~leading /\ flags \cap {WIDE_CHAR, WIDE_CHAR_SPACER, WRAPLINE} = {})
    OBVIOUS
  <1>2. a = Claim(c, f, b, style, flags, combined, leading, linked, ucolored, k)
    BY <1>1, AnswersClaim
  <1>3. PICK m : m = [a EXCEPT !.c = x]
    OBVIOUS
  <1>4. m = Claim(x, f, b, style, flags, combined, leading, linked, ucolored, k)
    BY <1>2, <1>3 DEF Claim
  <1>5. QED
    BY <1>3, <1>4, AnswerBlanked

LEMMA AnswersFg ==
  ASSUME NEW c, NEW f, NEW b, NEW style, NEW flags, NEW combined, NEW leading, NEW linked, NEW ucolored, NEW x, NEW a,
         a = Answer(c, f, b, style, flags, combined, leading, linked, ucolored)
  PROVE  Blankness([a EXCEPT !.fg = x]) = Answer(c, x, b, style, flags, combined, leading, linked, ucolored)
  <1>1. PICK k : k = (c = Space /\ ~combined /\ ~leading /\ flags \cap {WIDE_CHAR, WIDE_CHAR_SPACER, WRAPLINE} = {})
    OBVIOUS
  <1>2. a = Claim(c, f, b, style, flags, combined, leading, linked, ucolored, k)
    BY <1>1, AnswersClaim
  <1>3. PICK m : m = [a EXCEPT !.fg = x]
    OBVIOUS
  <1>4. m = Claim(c, x, b, style, flags, combined, leading, linked, ucolored, k)
    BY <1>2, <1>3 DEF Claim
  <1>5. QED
    BY <1>3, <1>4, AnswerBlanked

LEMMA AnswersBg ==
  ASSUME NEW c, NEW f, NEW b, NEW style, NEW flags, NEW combined, NEW leading, NEW linked, NEW ucolored, NEW x, NEW a,
         a = Answer(c, f, b, style, flags, combined, leading, linked, ucolored)
  PROVE  Blankness([a EXCEPT !.bg = x]) = Answer(c, f, x, style, flags, combined, leading, linked, ucolored)
  <1>1. PICK k : k = (c = Space /\ ~combined /\ ~leading /\ flags \cap {WIDE_CHAR, WIDE_CHAR_SPACER, WRAPLINE} = {})
    OBVIOUS
  <1>2. a = Claim(c, f, b, style, flags, combined, leading, linked, ucolored, k)
    BY <1>1, AnswersClaim
  <1>3. PICK m : m = [a EXCEPT !.bg = x]
    OBVIOUS
  <1>4. m = Claim(c, f, x, style, flags, combined, leading, linked, ucolored, k)
    BY <1>2, <1>3 DEF Claim
  <1>5. QED
    BY <1>3, <1>4, AnswerBlanked

LEMMA AnswersCombined ==
  ASSUME NEW c, NEW f, NEW b, NEW style, NEW flags, NEW combined, NEW leading, NEW linked, NEW ucolored, NEW x, NEW a,
         a = Answer(c, f, b, style, flags, combined, leading, linked, ucolored)
  PROVE  Blankness([a EXCEPT !.combined = x]) = Answer(c, f, b, style, flags, x, leading, linked, ucolored)
  <1>1. PICK k : k = (c = Space /\ ~combined /\ ~leading /\ flags \cap {WIDE_CHAR, WIDE_CHAR_SPACER, WRAPLINE} = {})
    OBVIOUS
  <1>2. a = Claim(c, f, b, style, flags, combined, leading, linked, ucolored, k)
    BY <1>1, AnswersClaim
  <1>3. PICK m : m = [a EXCEPT !.combined = x]
    OBVIOUS
  <1>4. m = Claim(c, f, b, style, flags, x, leading, linked, ucolored, k)
    BY <1>2, <1>3 DEF Claim
  <1>5. QED
    BY <1>3, <1>4, AnswerBlanked

LEMMA AnswersLeading ==
  ASSUME NEW c, NEW f, NEW b, NEW style, NEW flags, NEW combined, NEW leading, NEW linked, NEW ucolored, NEW x, NEW a,
         a = Answer(c, f, b, style, flags, combined, leading, linked, ucolored)
  PROVE  Blankness([a EXCEPT !.leading = x]) = Answer(c, f, b, style, flags, combined, x, linked, ucolored)
  <1>1. PICK k : k = (c = Space /\ ~combined /\ ~leading /\ flags \cap {WIDE_CHAR, WIDE_CHAR_SPACER, WRAPLINE} = {})
    OBVIOUS
  <1>2. a = Claim(c, f, b, style, flags, combined, leading, linked, ucolored, k)
    BY <1>1, AnswersClaim
  <1>3. PICK m : m = [a EXCEPT !.leading = x]
    OBVIOUS
  <1>4. m = Claim(c, f, b, style, flags, combined, x, linked, ucolored, k)
    BY <1>2, <1>3 DEF Claim
  <1>5. QED
    BY <1>3, <1>4, AnswerBlanked

LEMMA AnswersLinked ==
  ASSUME NEW c, NEW f, NEW b, NEW style, NEW flags, NEW combined, NEW leading, NEW linked, NEW ucolored, NEW x, NEW a,
         a = Answer(c, f, b, style, flags, combined, leading, linked, ucolored)
  PROVE  Blankness([a EXCEPT !.linked = x]) = Answer(c, f, b, style, flags, combined, leading, x, ucolored)
  <1>1. PICK k : k = (c = Space /\ ~combined /\ ~leading /\ flags \cap {WIDE_CHAR, WIDE_CHAR_SPACER, WRAPLINE} = {})
    OBVIOUS
  <1>2. a = Claim(c, f, b, style, flags, combined, leading, linked, ucolored, k)
    BY <1>1, AnswersClaim
  <1>3. PICK m : m = [a EXCEPT !.linked = x]
    OBVIOUS
  <1>4. m = Claim(c, f, b, style, flags, combined, leading, x, ucolored, k)
    BY <1>2, <1>3 DEF Claim
  <1>5. QED
    BY <1>3, <1>4, AnswerBlanked

LEMMA AnswersUcolored ==
  ASSUME NEW c, NEW f, NEW b, NEW style, NEW flags, NEW combined, NEW leading, NEW linked, NEW ucolored, NEW x, NEW a,
         a = Answer(c, f, b, style, flags, combined, leading, linked, ucolored)
  PROVE  Blankness([a EXCEPT !.ucolored = x]) = Answer(c, f, b, style, flags, combined, leading, linked, x)
  <1>1. PICK k : k = (c = Space /\ ~combined /\ ~leading /\ flags \cap {WIDE_CHAR, WIDE_CHAR_SPACER, WRAPLINE} = {})
    OBVIOUS
  <1>2. a = Claim(c, f, b, style, flags, combined, leading, linked, ucolored, k)
    BY <1>1, AnswersClaim
  <1>3. PICK m : m = [a EXCEPT !.ucolored = x]
    OBVIOUS
  <1>4. m = Claim(c, f, b, style, flags, combined, leading, linked, x, k)
    BY <1>2, <1>3 DEF Claim
  <1>5. QED
    BY <1>3, <1>4, AnswerBlanked

LEMMA AnswersRead ==
  ASSUME NEW c, NEW f, NEW b, NEW style, NEW flags, NEW combined, NEW leading, NEW linked, NEW ucolored, NEW a,
         a = Answer(c, f, b, style, flags, combined, leading, linked, ucolored)
  PROVE  a.flags = flags /\ a.style = style
  <1>1. PICK k : k = (c = Space /\ ~combined /\ ~leading /\ flags \cap {WIDE_CHAR, WIDE_CHAR_SPACER, WRAPLINE} = {})
    OBVIOUS
  <1>2. a = Claim(c, f, b, style, flags, combined, leading, linked, ucolored, k)
    BY <1>1, AnswersClaim
  <1>3. QED
    BY <1>2, ClaimReads

\* Setting a style sets the flag that goes with it.
LEMMA StyleAnswers ==
  ASSUME NEW c, NEW f, NEW b, NEW style, NEW flags, NEW combined, NEW leading, NEW linked, NEW ucolored, NEW x, NEW y, NEW a,
         a = Answer(c, f, b, style, flags, combined, leading, linked, ucolored)
  PROVE  Blankness(Styled(a, y, x)) = Answer(c, f, b, x, Underlined(y, x), combined, leading, linked, ucolored)
  <1>1. PICK k : k = (c = Space /\ ~combined /\ ~leading /\ flags \cap {WIDE_CHAR, WIDE_CHAR_SPACER, WRAPLINE} = {})
    OBVIOUS
  <1>2. a = Claim(c, f, b, style, flags, combined, leading, linked, ucolored, k)
    BY <1>1, AnswersClaim
  <1>3. Styled(a, y, x) = [[a EXCEPT !.style = x] EXCEPT !.flags = Underlined(y, x)]
    BY DEF Styled
  <1>4. PICK m : m = [a EXCEPT !.style = x]
    OBVIOUS
  <1>5. m = Claim(c, f, b, x, flags, combined, leading, linked, ucolored, k)
    BY <1>2, <1>4 DEF Claim
  <1>6. [m EXCEPT !.flags = Underlined(y, x)] = Claim(c, f, b, x, Underlined(y, x), combined, leading, linked, ucolored, k)
    BY <1>5 DEF Claim
  <1>7. QED
    BY <1>3, <1>4, <1>6, AnswerBlanked

----------------------------------------------------------------------------
(* What a setter changes. *)
LEMMA FlagsKept ==
  ASSUME NEW c, NEW f, NEW b, NEW d, NEW g, NEW e,
         d.bits \cap ContentMarkers = c.bits \cap ContentMarkers, d.bits \cap StyleBits = c.bits \cap StyleBits,
         g.bits = f.bits, e.bits \cap {26} = b.bits \cap {26}, e.bits \cap {27} = b.bits \cap {27}
  PROVE  FlagsOf(d, g, e) = FlagsOf(c, f, b) /\ StyleOf(d) = StyleOf(c)
  BY DEF FlagsOf, StyleOf

\* A colour is read back as it was packed.
LEMMA ColorBack ==
  ASSUME NEW p \in Payloads, NEW bits
  PROVE  /\ UnpackColor(PackColor(p, bits)) = p
         /\ PackColor(p, bits).bits = bits
         /\ PackColor(p, bits) = [mode |-> PackColor(p, bits).mode, payload |-> PackColor(p, bits).payload, bits |-> PackColor(p, bits).bits]
  <1>1. PackColor(p, bits) = [mode |-> p[1], payload |-> IF p[1] = 0 THEN 0 ELSE p[2], bits |-> bits]
    BY DEF PackColor
  <1>2. p = <<0, 0>> \/ p \in {1, 2} \X Nat
    BY PackedAssumption
  <1>3. UnpackColor(PackColor(p, bits)) = p
    <2>1. CASE p = <<0, 0>>
      BY <1>1, <2>1 DEF UnpackColor
    <2>2. CASE p \in {1, 2} \X Nat
      <3>1. p[1] \in {1, 2} /\ p = <<p[1], p[2]>> /\ p[1] # 0
        BY <2>2
      <3>2. QED
        BY <1>1, <3>1 DEF UnpackColor
    <2>3. QED
      BY <1>2, <2>1, <2>2
  <1>4. QED
    BY <1>1, <1>3

\* The bits of a colour word change under its colour.
LEMMA ColorKept ==
  ASSUME NEW w, NEW bits, w = [mode |-> w.mode, payload |-> w.payload, bits |-> w.bits]
  PROVE  /\ UnpackColor([w EXCEPT !.bits = bits]) = UnpackColor(w)
         /\ [w EXCEPT !.bits = bits].bits = bits
         /\ [w EXCEPT !.bits = bits] = [mode |-> w.mode, payload |-> w.payload, bits |-> bits]
  <1>1. [w EXCEPT !.bits = bits] = [mode |-> w.mode, payload |-> w.payload, bits |-> bits]
    OBVIOUS
  <1>2. QED
    BY <1>1 DEF UnpackColor

LEMMA WordKept ==
  ASSUME NEW w, NEW x, w = [cp |-> w.cp, bits |-> w.bits]
  PROVE  /\ [w EXCEPT !.bits = x] = [cp |-> w.cp, bits |-> x]
         /\ [w EXCEPT !.cp = x] = [cp |-> x, bits |-> w.bits]
  OBVIOUS

LEMMA SetCKeeps ==
  ASSUME CellInv, SetC
  PROVE  CellInv'
  <1>1. PICK x \in Chars : content' = [content EXCEPT !.cp = x] /\ attrs' = Blankness([attrs EXCEPT !.c = x])
    BY DEF SetC, Promise
  <1>2. content' = [cp |-> x, bits |-> content.bits] /\ fg' = fg /\ bg' = bg
    BY <1>1, WordKept DEF CellInv, SoundWords, SetC
  <1>3. content'.cp = x /\ content'.bits = content.bits
    BY <1>2
  <1>4. FlagsOf(content', fg', bg') = FlagsOf(content, fg, bg) /\ StyleOf(content') = StyleOf(content)
    BY <1>2, <1>3, FlagsKept
  <1>5. SoundWords(content', fg', bg')
    BY <1>2, <1>3, <1>4 DEF CellInv, SoundWords
  <1>6. attrs' = AnswerOf(content', fg', bg')
    <2>1. attrs
            = Answer(content.cp, UnpackColor(fg), UnpackColor(bg), StyleOf(content),
                FlagsOf(content, fg, bg) \ StyleField, C_COMBINED \in content.bits, C_LEADING_SPACER \in content.bits, BG_LINK \in bg.bits, BG_UCOLOR \in bg.bits)
      BY DEF CellInv, AnswerOf
    <2>2. attrs'
            = Answer(x, UnpackColor(fg), UnpackColor(bg), StyleOf(content),
                FlagsOf(content, fg, bg) \ StyleField, C_COMBINED \in content.bits, C_LEADING_SPACER \in content.bits, BG_LINK \in bg.bits, BG_UCOLOR \in bg.bits)
      BY <1>1, <2>1, AnswersC
    <2>3. QED
      BY <1>1, <1>2, <1>3, <1>4, <2>2 DEF AnswerOf
  <1>7. QED
    BY <1>5, <1>6 DEF CellInv

LEMMA SetFgKeeps ==
  ASSUME CellInv, SetFg
  PROVE  CellInv'
  <1>1. PICK x \in Payloads : fg' = PackColor(x, fg.bits) /\ attrs' = Blankness([attrs EXCEPT !.fg = x])
    BY DEF SetFg, Promise
  <1>2. content' = content /\ bg' = bg
    BY DEF SetFg
  <1>3. UnpackColor(fg') = x /\ fg'.bits = fg.bits /\ fg' = [mode |-> fg'.mode, payload |-> fg'.payload, bits |-> fg'.bits]
    BY <1>1, ColorBack
  <1>4. FlagsOf(content', fg', bg') = FlagsOf(content, fg, bg) /\ StyleOf(content') = StyleOf(content)
    BY <1>2, <1>3, FlagsKept
  <1>5. SoundWords(content', fg', bg')
    BY <1>2, <1>3, <1>4 DEF CellInv, SoundWords
  <1>6. attrs' = AnswerOf(content', fg', bg')
    <2>1. attrs
            = Answer(content.cp, UnpackColor(fg), UnpackColor(bg), StyleOf(content),
                FlagsOf(content, fg, bg) \ StyleField, C_COMBINED \in content.bits, C_LEADING_SPACER \in content.bits, BG_LINK \in bg.bits, BG_UCOLOR \in bg.bits)
      BY DEF CellInv, AnswerOf
    <2>2. attrs'
            = Answer(content.cp, x, UnpackColor(bg), StyleOf(content),
                FlagsOf(content, fg, bg) \ StyleField, C_COMBINED \in content.bits, C_LEADING_SPACER \in content.bits, BG_LINK \in bg.bits, BG_UCOLOR \in bg.bits)
      BY <1>1, <2>1, AnswersFg
    <2>3. QED
      BY <1>1, <1>2, <1>3, <1>4, <2>2 DEF AnswerOf
  <1>7. QED
    BY <1>5, <1>6 DEF CellInv

LEMMA SetBgKeeps ==
  ASSUME CellInv, SetBg
  PROVE  CellInv'
  <1>1. PICK x \in Payloads : bg' = PackColor(x, bg.bits) /\ attrs' = Blankness([attrs EXCEPT !.bg = x])
    BY DEF SetBg, Promise
  <1>2. content' = content /\ fg' = fg
    BY DEF SetBg
  <1>3. UnpackColor(bg') = x /\ bg'.bits = bg.bits /\ bg' = [mode |-> bg'.mode, payload |-> bg'.payload, bits |-> bg'.bits]
    BY <1>1, ColorBack
  <1>4. FlagsOf(content', fg', bg') = FlagsOf(content, fg, bg) /\ StyleOf(content') = StyleOf(content)
    BY <1>2, <1>3, FlagsKept
  <1>5. SoundWords(content', fg', bg')
    BY <1>2, <1>3, <1>4 DEF CellInv, SoundWords
  <1>6. attrs' = AnswerOf(content', fg', bg')
    <2>1. attrs
            = Answer(content.cp, UnpackColor(fg), UnpackColor(bg), StyleOf(content),
                FlagsOf(content, fg, bg) \ StyleField, C_COMBINED \in content.bits, C_LEADING_SPACER \in content.bits, BG_LINK \in bg.bits, BG_UCOLOR \in bg.bits)
      BY DEF CellInv, AnswerOf
    <2>2. attrs'
            = Answer(content.cp, UnpackColor(fg), x, StyleOf(content),
                FlagsOf(content, fg, bg) \ StyleField, C_COMBINED \in content.bits, C_LEADING_SPACER \in content.bits, BG_LINK \in bg.bits, BG_UCOLOR \in bg.bits)
      BY <1>1, <2>1, AnswersBg
    <2>3. QED
      BY <1>1, <1>2, <1>3, <1>4, <2>2 DEF AnswerOf
  <1>7. QED
    BY <1>5, <1>6 DEF CellInv

LEMMA SetCombinedKeeps ==
  ASSUME CellInv, SetCombined
  PROVE  CellInv'
  <1>1. PICK on \in BOOLEAN : content' = Presence(content, C_COMBINED, on) /\ attrs' = Blankness([attrs EXCEPT !.combined = on])
    BY DEF SetCombined, Promise
  <1>2. fg' = fg /\ bg' = bg
    BY DEF SetCombined
  <1>3. PICK x : x = IF on THEN content.bits \cup {C_COMBINED} ELSE content.bits \ {C_COMBINED}
    OBVIOUS
  <1>4. content' = [content EXCEPT !.bits = x]
    BY <1>1, <1>3 DEF Presence
  <1>5. content' = [cp |-> content.cp, bits |-> x]
    BY <1>4, WordKept DEF CellInv, SoundWords
  <1>6. content'.bits = x /\ content'.cp = content.cp
    BY <1>5
  <1>7. x \cap ContentMarkers = content.bits \cap ContentMarkers /\ x \cap StyleBits = content.bits \cap StyleBits
    BY <1>3 DEF ContentMarkers, StyleBits, C_COMBINED
  <1>8. FlagsOf(content', fg', bg') = FlagsOf(content, fg, bg) /\ StyleOf(content') = StyleOf(content)
    BY <1>2, <1>6, <1>7, FlagsKept
  <1>9. (C_COMBINED \in x) = on /\ (C_LEADING_SPACER \in x) = (C_LEADING_SPACER \in content.bits)
    BY <1>3 DEF C_COMBINED, C_LEADING_SPACER
  <1>10. x \in SUBSET (21..28)
    BY <1>3 DEF CellInv, SoundWords, C_COMBINED
  <1>11. SoundWords(content', fg', bg')
    BY <1>2, <1>5, <1>6, <1>8, <1>10 DEF CellInv, SoundWords
  <1>12. attrs' = AnswerOf(content', fg', bg')
    <2>1. attrs
            = Answer(content.cp, UnpackColor(fg), UnpackColor(bg), StyleOf(content),
                FlagsOf(content, fg, bg) \ StyleField, C_COMBINED \in content.bits, C_LEADING_SPACER \in content.bits, BG_LINK \in bg.bits, BG_UCOLOR \in bg.bits)
      BY DEF CellInv, AnswerOf
    <2>2. attrs'
            = Answer(content.cp, UnpackColor(fg), UnpackColor(bg), StyleOf(content),
                FlagsOf(content, fg, bg) \ StyleField, on, C_LEADING_SPACER \in content.bits, BG_LINK \in bg.bits, BG_UCOLOR \in bg.bits)
      BY <1>1, <2>1, AnswersCombined
    <2>3. QED
      BY <1>1, <1>2, <1>5, <1>6, <1>8, <1>9, <2>2 DEF AnswerOf
  <1>13. QED
    BY <1>11, <1>12 DEF CellInv

LEMMA SetLeadingSpacerKeeps ==
  ASSUME CellInv, SetLeadingSpacer
  PROVE  CellInv'
  <1>1. PICK on \in BOOLEAN : content' = Presence(content, C_LEADING_SPACER, on) /\ attrs' = Blankness([attrs EXCEPT !.leading = on])
    BY DEF SetLeadingSpacer, Promise
  <1>2. fg' = fg /\ bg' = bg
    BY DEF SetLeadingSpacer
  <1>3. PICK x : x = IF on THEN content.bits \cup {C_LEADING_SPACER} ELSE content.bits \ {C_LEADING_SPACER}
    OBVIOUS
  <1>4. content' = [content EXCEPT !.bits = x]
    BY <1>1, <1>3 DEF Presence
  <1>5. content' = [cp |-> content.cp, bits |-> x]
    BY <1>4, WordKept DEF CellInv, SoundWords
  <1>6. content'.bits = x /\ content'.cp = content.cp
    BY <1>5
  <1>7. x \cap ContentMarkers = content.bits \cap ContentMarkers /\ x \cap StyleBits = content.bits \cap StyleBits
    BY <1>3 DEF ContentMarkers, StyleBits, C_LEADING_SPACER
  <1>8. FlagsOf(content', fg', bg') = FlagsOf(content, fg, bg) /\ StyleOf(content') = StyleOf(content)
    BY <1>2, <1>6, <1>7, FlagsKept
  <1>9. (C_LEADING_SPACER \in x) = on /\ (C_COMBINED \in x) = (C_COMBINED \in content.bits)
    BY <1>3 DEF C_LEADING_SPACER, C_COMBINED
  <1>10. x \in SUBSET (21..28)
    BY <1>3 DEF CellInv, SoundWords, C_LEADING_SPACER
  <1>11. SoundWords(content', fg', bg')
    BY <1>2, <1>5, <1>6, <1>8, <1>10 DEF CellInv, SoundWords
  <1>12. attrs' = AnswerOf(content', fg', bg')
    <2>1. attrs
            = Answer(content.cp, UnpackColor(fg), UnpackColor(bg), StyleOf(content),
                FlagsOf(content, fg, bg) \ StyleField, C_COMBINED \in content.bits, C_LEADING_SPACER \in content.bits, BG_LINK \in bg.bits, BG_UCOLOR \in bg.bits)
      BY DEF CellInv, AnswerOf
    <2>2. attrs'
            = Answer(content.cp, UnpackColor(fg), UnpackColor(bg), StyleOf(content),
                FlagsOf(content, fg, bg) \ StyleField, C_COMBINED \in content.bits, on, BG_LINK \in bg.bits, BG_UCOLOR \in bg.bits)
      BY <1>1, <2>1, AnswersLeading
    <2>3. QED
      BY <1>1, <1>2, <1>5, <1>6, <1>8, <1>9, <2>2 DEF AnswerOf
  <1>13. QED
    BY <1>11, <1>12 DEF CellInv

LEMMA SetLinkedKeeps ==
  ASSUME CellInv, SetLinked
  PROVE  CellInv'
  <1>1. PICK on \in BOOLEAN : bg' = Presence(bg, BG_LINK, on) /\ attrs' = Blankness([attrs EXCEPT !.linked = on])
    BY DEF SetLinked, Promise
  <1>2. content' = content /\ fg' = fg
    BY DEF SetLinked
  <1>3. PICK x : x = IF on THEN bg.bits \cup {BG_LINK} ELSE bg.bits \ {BG_LINK}
    OBVIOUS
  <1>4. bg' = [bg EXCEPT !.bits = x]
    BY <1>1, <1>3 DEF Presence
  <1>5. bg' = [mode |-> bg.mode, payload |-> bg.payload, bits |-> x] /\ UnpackColor(bg') = UnpackColor(bg)
    BY <1>4, ColorKept DEF CellInv, SoundWords
  <1>6. bg'.bits = x /\ bg'.mode = bg.mode /\ bg'.payload = bg.payload
    BY <1>5
  <1>7. x \cap {26} = bg.bits \cap {26} /\ x \cap {27} = bg.bits \cap {27}
    BY <1>3 DEF BG_LINK
  <1>8. FlagsOf(content', fg', bg') = FlagsOf(content, fg, bg) /\ StyleOf(content') = StyleOf(content)
    BY <1>2, <1>6, <1>7, FlagsKept
  <1>9. (BG_LINK \in x) = on /\ (BG_UCOLOR \in x) = (BG_UCOLOR \in bg.bits)
    BY <1>3 DEF BG_LINK, BG_UCOLOR
  <1>10. x \in SUBSET (24..31)
    BY <1>3 DEF CellInv, SoundWords, BG_LINK
  <1>11. SoundWords(content', fg', bg')
    BY <1>2, <1>5, <1>6, <1>8, <1>10 DEF CellInv, SoundWords
  <1>12. attrs' = AnswerOf(content', fg', bg')
    <2>1. attrs
            = Answer(content.cp, UnpackColor(fg), UnpackColor(bg), StyleOf(content),
                FlagsOf(content, fg, bg) \ StyleField, C_COMBINED \in content.bits, C_LEADING_SPACER \in content.bits, BG_LINK \in bg.bits, BG_UCOLOR \in bg.bits)
      BY DEF CellInv, AnswerOf
    <2>2. attrs'
            = Answer(content.cp, UnpackColor(fg), UnpackColor(bg), StyleOf(content),
                FlagsOf(content, fg, bg) \ StyleField, C_COMBINED \in content.bits, C_LEADING_SPACER \in content.bits, on, BG_UCOLOR \in bg.bits)
      BY <1>1, <2>1, AnswersLinked
    <2>3. QED
      BY <1>1, <1>2, <1>5, <1>6, <1>8, <1>9, <2>2 DEF AnswerOf
  <1>13. QED
    BY <1>11, <1>12 DEF CellInv

LEMMA SetUcoloredKeeps ==
  ASSUME CellInv, SetUcolored
  PROVE  CellInv'
  <1>1. PICK on \in BOOLEAN : bg' = Presence(bg, BG_UCOLOR, on) /\ attrs' = Blankness([attrs EXCEPT !.ucolored = on])
    BY DEF SetUcolored, Promise
  <1>2. content' = content /\ fg' = fg
    BY DEF SetUcolored
  <1>3. PICK x : x = IF on THEN bg.bits \cup {BG_UCOLOR} ELSE bg.bits \ {BG_UCOLOR}
    OBVIOUS
  <1>4. bg' = [bg EXCEPT !.bits = x]
    BY <1>1, <1>3 DEF Presence
  <1>5. bg' = [mode |-> bg.mode, payload |-> bg.payload, bits |-> x] /\ UnpackColor(bg') = UnpackColor(bg)
    BY <1>4, ColorKept DEF CellInv, SoundWords
  <1>6. bg'.bits = x /\ bg'.mode = bg.mode /\ bg'.payload = bg.payload
    BY <1>5
  <1>7. x \cap {26} = bg.bits \cap {26} /\ x \cap {27} = bg.bits \cap {27}
    BY <1>3 DEF BG_UCOLOR
  <1>8. FlagsOf(content', fg', bg') = FlagsOf(content, fg, bg) /\ StyleOf(content') = StyleOf(content)
    BY <1>2, <1>6, <1>7, FlagsKept
  <1>9. (BG_UCOLOR \in x) = on /\ (BG_LINK \in x) = (BG_LINK \in bg.bits)
    BY <1>3 DEF BG_UCOLOR, BG_LINK
  <1>10. x \in SUBSET (24..31)
    BY <1>3 DEF CellInv, SoundWords, BG_UCOLOR
  <1>11. SoundWords(content', fg', bg')
    BY <1>2, <1>5, <1>6, <1>8, <1>10 DEF CellInv, SoundWords
  <1>12. attrs' = AnswerOf(content', fg', bg')
    <2>1. attrs
            = Answer(content.cp, UnpackColor(fg), UnpackColor(bg), StyleOf(content),
                FlagsOf(content, fg, bg) \ StyleField, C_COMBINED \in content.bits, C_LEADING_SPACER \in content.bits, BG_LINK \in bg.bits, BG_UCOLOR \in bg.bits)
      BY DEF CellInv, AnswerOf
    <2>2. attrs'
            = Answer(content.cp, UnpackColor(fg), UnpackColor(bg), StyleOf(content),
                FlagsOf(content, fg, bg) \ StyleField, C_COMBINED \in content.bits, C_LEADING_SPACER \in content.bits, BG_LINK \in bg.bits, on)
      BY <1>1, <2>1, AnswersUcolored
    <2>3. QED
      BY <1>1, <1>2, <1>5, <1>6, <1>8, <1>9, <2>2 DEF AnswerOf
  <1>13. QED
    BY <1>11, <1>12 DEF CellInv

----------------------------------------------------------------------------
(* Styles and flags. *)
\* What answers to the bits is what the reader reads.
LEMMA FlagsGiven ==
  ASSUME NEW c, NEW f, NEW b, NEW G, SoundWords(c, f, b), Answers(G, StyleOf(c), c.bits, f.bits, b.bits)
  PROVE  FlagsOf(c, f, b) \ StyleField = G
  BY FlagsAnswer, SameFlags DEF SoundWords

LEMMA UnderlinedIs ==
  ASSUME NEW F, NEW style
  PROVE  /\ 3 \in Underlined(F, style) <=> style # 0
         /\ \A x : x # 3 => (x \in Underlined(F, style) <=> x \in F)
         /\ F \subseteq 0..10 => Underlined(F, style) \subseteq 0..10
  BY DEF Underlined, UNDERLINE

\* The bits of a style replace those of another.
LEMMA Restyled ==
  ASSUME NEW B \in SUBSET (21..28), NEW n \in 0..5
  PROVE  /\ WithStyle(B, n) \in SUBSET (21..28)
         /\ WithStyle(B, n) \cap StyleBits = Moved(Bits(n), 26)
         /\ \A x \in 21..25 : x \in WithStyle(B, n) <=> x \in B
  <1>1. PICK M : M = Moved(Bits(n), 26)
    OBVIOUS
  <1>2. M \in SUBSET (26..28)
    BY <1>1, StyleBitsOf
  <1>3. WithStyle(B, n) = (B \ StyleBits) \cup M
    BY <1>1 DEF WithStyle
  <1>4. M \subseteq StyleBits /\ M \subseteq 21..28 /\ \A x \in 21..25 : x \notin M /\ x \notin StyleBits
    BY <1>2 DEF StyleBits
  <1>5. WithStyle(B, n) \in SUBSET (21..28)
    BY <1>3, <1>4
  <1>6. WithStyle(B, n) \cap StyleBits = M
    BY <1>3, <1>4
  <1>7. \A x \in 21..25 : x \in WithStyle(B, n) <=> x \in B
    BY <1>3, <1>4
  <1>8. QED
    BY <1>1, <1>5, <1>6, <1>7

\* The flags of a cell, with another style.
LEMMA RestyledAnswers ==
  ASSUME NEW F, NEW s, NEW n, NEW cb, NEW fb, NEW bb, NEW cx, Answers(F, s, cb, fb, bb),
         22 \in cx <=> 22 \in cb, 23 \in cx <=> 23 \in cb, 24 \in cx <=> 24 \in cb
  PROVE  Answers(Underlined(F, n), n, cx, fb, bb)
  <1>1. PICK U : U = Underlined(F, n)
    OBVIOUS
  <1>2. (3 \in U <=> n # 0) /\ (\A x : x # 3 => (x \in U <=> x \in F)) /\ U \subseteq 0..10
    BY <1>1, UnderlinedIs DEF Answers
  <1>3. \A x \in {0, 1, 2, 4, 5, 6, 7, 8, 9, 10} : x # 3
    OBVIOUS
  <1>4. \A x \in {0, 1, 2, 4, 5, 6, 7, 8, 9, 10} : x \in U <=> x \in F
    BY <1>2, <1>3
  <1>5. Answers(U, n, cx, fb, bb)
    BY <1>2, <1>4 DEF Answers
  <1>6. QED
    BY <1>1, <1>5

LEMMA SetUnderlineStyleKeeps ==
  ASSUME CellInv, SetUnderlineStyle
  PROVE  CellInv'
  <1>1. PICK n \in 0..5 : /\ content' = [content EXCEPT !.bits = WithStyle(content.bits, n)]
                          /\ attrs' = Blankness(Styled(attrs, attrs.flags, n))
    BY DEF SetUnderlineStyle, Promise
  <1>2. fg' = fg /\ bg' = bg
    BY DEF SetUnderlineStyle
  <1>3. PICK x : x = WithStyle(content.bits, n)
    OBVIOUS
  <1>4. content' = [cp |-> content.cp, bits |-> x]
    BY <1>1, <1>3, WordKept DEF CellInv, SoundWords
  <1>5. content'.bits = x /\ content'.cp = content.cp
    BY <1>4
  <1>6. /\ x \in SUBSET (21..28) /\ x \cap StyleBits = Moved(Bits(n), 26)
        /\ \A y \in 21..25 : y \in x <=> y \in content.bits
    BY <1>3, Restyled DEF CellInv, SoundWords
  <1>7. StyleOf(content') = n
    <2>1. x \in SUBSET Int
      BY <1>6
    <2>2. QED
      BY <1>5, <1>6, <2>1, StyleTold DEF StyleOf
  <1>8. SoundWords(content', fg', bg')
    BY <1>2, <1>4, <1>5, <1>6, <1>7 DEF CellInv, SoundWords
  <1>9. PICK F : F = FlagsOf(content, fg, bg) \ StyleField
    OBVIOUS
  <1>10. attrs = Answer(content.cp, UnpackColor(fg), UnpackColor(bg), StyleOf(content), F, C_COMBINED \in content.bits,
                        C_LEADING_SPACER \in content.bits, BG_LINK \in bg.bits, BG_UCOLOR \in bg.bits)
    BY <1>9 DEF CellInv, AnswerOf
  <1>11. attrs.flags = F
    BY <1>10, AnswersRead
  <1>12. Answers(F, StyleOf(content), content.bits, fg.bits, bg.bits)
    BY <1>9, FlagsAnswer DEF CellInv, SoundWords
  <1>13. Answers(Underlined(F, n), StyleOf(content'), content'.bits, fg'.bits, bg'.bits)
    <2>1. (22 \in x <=> 22 \in content.bits) /\ (23 \in x <=> 23 \in content.bits) /\ (24 \in x <=> 24 \in content.bits)
      BY <1>6
    <2>2. Answers(Underlined(F, n), n, x, fg.bits, bg.bits)
      BY <1>12, <2>1, RestyledAnswers
    <2>3. QED
      BY <1>2, <1>5, <1>7, <2>2
  <1>14. FlagsOf(content', fg', bg') \ StyleField = Underlined(F, n)
    BY <1>8, <1>13, FlagsGiven
  <1>15. (C_COMBINED \in x) = (C_COMBINED \in content.bits) /\ (C_LEADING_SPACER \in x) = (C_LEADING_SPACER \in content.bits)
    BY <1>6 DEF C_COMBINED, C_LEADING_SPACER
  <1>16. attrs' = Answer(content.cp, UnpackColor(fg), UnpackColor(bg), n, Underlined(F, n), C_COMBINED \in content.bits,
                         C_LEADING_SPACER \in content.bits, BG_LINK \in bg.bits, BG_UCOLOR \in bg.bits)
    BY <1>1, <1>10, <1>11, StyleAnswers
  <1>17. attrs' = AnswerOf(content', fg', bg')
    BY <1>2, <1>5, <1>7, <1>14, <1>15, <1>16 DEF AnswerOf
  <1>18. QED
    BY <1>8, <1>17 DEF CellInv

\* insert_flags and remove_flags, on the content word.
LEMMA InsertedBits ==
  ASSUME NEW B \in SUBSET (21..28), NEW w \in SUBSET (22..28), NEW n \in 0..5, w \cap StyleBits = Moved(Bits(n), 26)
  PROVE  /\ Inserted(B, w) \in SUBSET (21..28)
         /\ Inserted(B, w) \cap StyleBits = IF n = 0 THEN B \cap StyleBits ELSE Moved(Bits(n), 26)
         /\ \A x \in 21..25 : x \in Inserted(B, w) <=> x \in B \/ x \in w
  <1>1. w \cap StyleBits = {} <=> n = 0
    BY StyleBitsOf
  <1>2. CASE n = 0
    BY <1>1, <1>2 DEF Inserted, StyleBits
  <1>3. CASE n # 0
    <2>1. Inserted(B, w) = ((B \cup (w \ StyleBits)) \ StyleBits) \cup (w \cap StyleBits)
      BY <1>1, <1>3 DEF Inserted
    <2>2. QED
      BY <1>3, <2>1 DEF StyleBits
  <1>4. QED
    BY <1>2, <1>3

LEMMA RemovedBits ==
  ASSUME NEW B \in SUBSET (21..28), NEW w \in SUBSET (22..28), NEW n \in 0..5, w \cap StyleBits = Moved(Bits(n), 26)
  PROVE  /\ Removed(B, w) \in SUBSET (21..28)
         /\ Removed(B, w) \cap StyleBits = IF n = 0 THEN B \cap StyleBits ELSE {}
         /\ \A x \in 21..25 : x \in Removed(B, w) <=> x \in B /\ x \notin w
  <1>1. w \cap StyleBits = {} <=> n = 0
    BY StyleBitsOf
  <1>2. CASE n = 0
    BY <1>1, <1>2 DEF Removed, StyleBits
  <1>3. CASE n # 0
    <2>1. Removed(B, w) = (B \ (w \ StyleBits)) \ StyleBits
      BY <1>1, <1>3 DEF Removed
    <2>2. QED
      BY <1>3, <2>1 DEF StyleBits
  <1>4. QED
    BY <1>2, <1>3

\* The flags of a cell, with those a caller inserts.
LEMMA InsertedAnswers ==
  ASSUME NEW F, NEW s, NEW n, NEW cb, NEW fb, NEW bb, NEW cx, NEW fx, NEW bx, NEW g \in SUBSET (0..13), Answers(F, s, cb, fb, bb),
         \A x \in 21..25 : x \in cx <=> x \in cb \/ x \in FlagWords(g).content,
         \A x \in 24..31 : x \in fx <=> x \in fb \/ x \in FlagWords(g).fg,
         \A x \in 24..31 : x \in bx <=> x \in bb \/ x \in FlagWords(g).bg
  PROVE  Answers(Underlined(F \cup (g \ StyleField), n), n, cx, fx, bx)
  <1>1. PICK U : U = Underlined(F \cup (g \ StyleField), n)
    OBVIOUS
  <1>2. F \cup (g \ StyleField) \subseteq 0..10
    BY DEF Answers, StyleField
  <1>3. (3 \in U <=> n # 0) /\ (\A x : x # 3 => (x \in U <=> x \in F \cup (g \ StyleField))) /\ U \subseteq 0..10
    BY <1>1, <1>2, UnderlinedIs
  <1>4. \A x \in {0, 1, 2, 4, 5, 6, 7, 8, 9, 10} : x # 3 /\ x \notin StyleField
    BY DEF StyleField
  <1>5. \A x \in {0, 1, 2, 4, 5, 6, 7, 8, 9, 10} : x \in U <=> x \in F \/ x \in g
    BY <1>3, <1>4
  <1>6. /\ 22 \in FlagWords(g).content <=> 8 \in g
        /\ 23 \in FlagWords(g).content <=> 9 \in g
        /\ 24 \in FlagWords(g).content <=> 10 \in g
        /\ 27 \in FlagWords(g).fg <=> 0 \in g
        /\ 26 \in FlagWords(g).fg <=> 5 \in g
        /\ 29 \in FlagWords(g).fg <=> 4 \in g
        /\ 30 \in FlagWords(g).fg <=> 6 \in g
        /\ 31 \in FlagWords(g).fg <=> 7 \in g
        /\ 26 \in FlagWords(g).bg <=> 2 \in g
        /\ 27 \in FlagWords(g).bg <=> 1 \in g
    BY WordsOf
  <1>7. (8 \in U <=> 22 \in cx) /\ (9 \in U <=> 23 \in cx) /\ (10 \in U <=> 24 \in cx)
    BY <1>5, <1>6 DEF Answers
  <1>8. (0 \in U <=> 27 \in fx) /\ (4 \in U <=> 29 \in fx) /\ (5 \in U <=> 26 \in fx)
        /\ (6 \in U <=> 30 \in fx) /\ (7 \in U <=> 31 \in fx)
    BY <1>5, <1>6 DEF Answers
  <1>9. (1 \in U <=> 27 \in bx) /\ (2 \in U <=> 26 \in bx)
    BY <1>5, <1>6 DEF Answers
  <1>10. Answers(U, n, cx, fx, bx)
    BY <1>3, <1>7, <1>8, <1>9 DEF Answers
  <1>11. QED
    BY <1>1, <1>10

\* The flags of a cell, without those a caller removes.
LEMMA RemovedAnswers ==
  ASSUME NEW F, NEW s, NEW n, NEW cb, NEW fb, NEW bb, NEW cx, NEW fx, NEW bx, NEW g \in SUBSET (0..13), Answers(F, s, cb, fb, bb),
         \A x \in 21..25 : x \in cx <=> x \in cb /\ x \notin FlagWords(g).content,
         \A x \in 24..31 : x \in fx <=> x \in fb /\ x \notin FlagWords(g).fg,
         \A x \in 24..31 : x \in bx <=> x \in bb /\ x \notin FlagWords(g).bg
  PROVE  Answers(Underlined(F \ (g \ StyleField), n), n, cx, fx, bx)
  <1>1. PICK U : U = Underlined(F \ (g \ StyleField), n)
    OBVIOUS
  <1>2. F \ (g \ StyleField) \subseteq 0..10
    BY DEF Answers, StyleField
  <1>3. (3 \in U <=> n # 0) /\ (\A x : x # 3 => (x \in U <=> x \in F \ (g \ StyleField))) /\ U \subseteq 0..10
    BY <1>1, <1>2, UnderlinedIs
  <1>4. \A x \in {0, 1, 2, 4, 5, 6, 7, 8, 9, 10} : x # 3 /\ x \notin StyleField
    BY DEF StyleField
  <1>5. \A x \in {0, 1, 2, 4, 5, 6, 7, 8, 9, 10} : x \in U <=> x \in F /\ x \notin g
    BY <1>3, <1>4
  <1>6. /\ 22 \in FlagWords(g).content <=> 8 \in g
        /\ 23 \in FlagWords(g).content <=> 9 \in g
        /\ 24 \in FlagWords(g).content <=> 10 \in g
        /\ 27 \in FlagWords(g).fg <=> 0 \in g
        /\ 26 \in FlagWords(g).fg <=> 5 \in g
        /\ 29 \in FlagWords(g).fg <=> 4 \in g
        /\ 30 \in FlagWords(g).fg <=> 6 \in g
        /\ 31 \in FlagWords(g).fg <=> 7 \in g
        /\ 26 \in FlagWords(g).bg <=> 2 \in g
        /\ 27 \in FlagWords(g).bg <=> 1 \in g
    BY WordsOf
  <1>7. (8 \in U <=> 22 \in cx) /\ (9 \in U <=> 23 \in cx) /\ (10 \in U <=> 24 \in cx)
    BY <1>5, <1>6 DEF Answers
  <1>8. (0 \in U <=> 27 \in fx) /\ (4 \in U <=> 29 \in fx) /\ (5 \in U <=> 26 \in fx)
        /\ (6 \in U <=> 30 \in fx) /\ (7 \in U <=> 31 \in fx)
    BY <1>5, <1>6 DEF Answers
  <1>9. (1 \in U <=> 27 \in bx) /\ (2 \in U <=> 26 \in bx)
    BY <1>5, <1>6 DEF Answers
  <1>10. Answers(U, n, cx, fx, bx)
    BY <1>3, <1>7, <1>8, <1>9 DEF Answers
  <1>11. QED
    BY <1>1, <1>10

\* No flag is a leading spacer.
LEMMA NoSpacer ==
  ASSUME NEW f \in SUBSET (0..13)
  PROVE  25 \notin FlagWords(f).content
  <1>1. 25 \notin Moved(f \cap {WIDE_CHAR, WIDE_CHAR_SPACER, WRAPLINE}, 14)
    BY DEF Moved, WIDE_CHAR, WIDE_CHAR_SPACER, WRAPLINE
  <1>2. 25 \notin Moved(Bits(NormalStyle(f)), 26)
    BY StyleNamed, StyleBitsOf
  <1>3. QED
    BY <1>1, <1>2 DEF FlagWords

LEMMA InsertFlagsKeeps ==
  ASSUME CellInv, InsertFlags
  PROVE  CellInv'
  <1>1. PICK g \in FlagInputs :
          /\ content' = [content EXCEPT !.bits = Inserted(content.bits, FlagWords(g).content)]
          /\ fg' = [fg EXCEPT !.bits = fg.bits \cup FlagWords(g).fg] /\ bg' = [bg EXCEPT !.bits = bg.bits \cup FlagWords(g).bg]
          /\ attrs' = Blankness(Styled(attrs, attrs.flags \cup (g \ StyleField), IF NormalStyle(g) = 0 THEN attrs.style ELSE NormalStyle(g)))
    BY DEF InsertFlags, Promise
  <1>2. g \in SUBSET (0..13)
    BY PackedAssumption
  <1>3. PICK F : F = FlagsOf(content, fg, bg) \ StyleField
    OBVIOUS
  <1>4. attrs = Answer(content.cp, UnpackColor(fg), UnpackColor(bg), StyleOf(content), F, C_COMBINED \in content.bits,
                       C_LEADING_SPACER \in content.bits, BG_LINK \in bg.bits, BG_UCOLOR \in bg.bits)
    BY <1>3 DEF CellInv, AnswerOf
  <1>5. attrs.flags = F /\ attrs.style = StyleOf(content)
    BY <1>4, AnswersRead
  <1>6. PICK n : n = NormalStyle(g)
    OBVIOUS
  <1>7. n \in 0..5
    BY <1>2, <1>6, StyleNamed
  <1>8. PICK style : style = IF n = 0 THEN StyleOf(content) ELSE n
    OBVIOUS
  <1>9. style \in 0..5
    BY <1>7, <1>8 DEF CellInv, SoundWords
  <1>10. PICK w : w = FlagWords(g).content
    OBVIOUS
  <1>11. PICK x : x = Inserted(content.bits, w)
    OBVIOUS
  <1>12. PICK y : y = fg.bits \cup FlagWords(g).fg
    OBVIOUS
  <1>13. PICK z : z = bg.bits \cup FlagWords(g).bg
    OBVIOUS
  <1>14. /\ w \in SUBSET (22..28) /\ FlagWords(g).fg \in SUBSET (24..31)
         /\ FlagWords(g).bg \in SUBSET {26, 27} /\ w \cap StyleBits = Moved(Bits(n), 26)
    BY <1>2, <1>6, <1>10, WordsOf
  <1>15. content.bits \in SUBSET (21..28)
    BY DEF CellInv, SoundWords
  <1>16. /\ x \in SUBSET (21..28)
         /\ x \cap StyleBits = IF n = 0 THEN content.bits \cap StyleBits ELSE Moved(Bits(n), 26)
         /\ \A k \in 21..25 : k \in x <=> k \in content.bits \/ k \in w
    BY <1>7, <1>11, <1>14, <1>15, InsertedBits
  <1>17. y \in SUBSET (24..31) /\ \A k \in 24..31 : k \in y <=> k \in fg.bits \/ k \in FlagWords(g).fg
    BY <1>12, <1>14 DEF CellInv, SoundWords
  <1>18. z \in SUBSET (24..31) /\ \A k \in 24..31 : k \in z <=> k \in bg.bits \/ k \in FlagWords(g).bg
    <2>1. FlagWords(g).bg \in SUBSET (24..31)
      BY <1>14
    <2>2. QED
      BY <1>13, <2>1 DEF CellInv, SoundWords
  <1>19. content' = [cp |-> content.cp, bits |-> x]
    BY <1>1, <1>10, <1>11, WordKept DEF CellInv, SoundWords
  <1>20. fg' = [mode |-> fg.mode, payload |-> fg.payload, bits |-> y] /\ UnpackColor(fg') = UnpackColor(fg)
    BY <1>1, <1>12, ColorKept DEF CellInv, SoundWords
  <1>21. bg' = [mode |-> bg.mode, payload |-> bg.payload, bits |-> z] /\ UnpackColor(bg') = UnpackColor(bg)
    BY <1>1, <1>13, ColorKept DEF CellInv, SoundWords
  <1>22. content'.bits = x /\ content'.cp = content.cp
    BY <1>19
  <1>23. fg'.bits = y /\ fg'.mode = fg.mode /\ fg'.payload = fg.payload
    BY <1>20
  <1>24. bg'.bits = z /\ bg'.mode = bg.mode /\ bg'.payload = bg.payload
    BY <1>21
  <1>25. StyleOf(content') = style
    <2>1. CASE n = 0
      BY <1>8, <1>16, <1>22, <2>1 DEF StyleOf
    <2>2. CASE n # 0
      <3>1. x \in SUBSET Int /\ x \cap StyleBits = Moved(Bits(n), 26)
        BY <1>16, <2>2, StyleBitsOf
      <3>2. QED
        BY <1>7, <1>8, <1>22, <2>2, <3>1, StyleTold DEF StyleOf
    <2>3. QED
      BY <2>1, <2>2
  <1>26. SoundWords(content', fg', bg')
    BY <1>9, <1>16, <1>17, <1>18, <1>19, <1>20, <1>21, <1>22, <1>23, <1>24, <1>25 DEF SoundWords
  <1>27. Answers(F, StyleOf(content), content.bits, fg.bits, bg.bits)
    BY <1>3, FlagsAnswer DEF CellInv, SoundWords
  <1>28. PICK G : G = Underlined(F \cup (g \ StyleField), style)
    OBVIOUS
  <1>29. Answers(G, style, x, y, z)
    BY <1>2, <1>10, <1>16, <1>17, <1>18, <1>27, <1>28, InsertedAnswers
  <1>30. FlagsOf(content', fg', bg') \ StyleField = G
    BY <1>22, <1>23, <1>24, <1>25, <1>26, <1>29, FlagsGiven
  <1>31. (C_COMBINED \in x) = (C_COMBINED \in content.bits) /\ (C_LEADING_SPACER \in x) = (C_LEADING_SPACER \in content.bits)
    <2>1. 21 \notin w /\ 25 \notin w
      <3>1. 25 \notin w
        BY <1>2, <1>10, NoSpacer
      <3>2. QED
        BY <1>14, <3>1
    <2>2. QED
      BY <1>16, <2>1 DEF C_COMBINED, C_LEADING_SPACER
  <1>32. (BG_LINK \in z) = (BG_LINK \in bg.bits) /\ (BG_UCOLOR \in z) = (BG_UCOLOR \in bg.bits)
    <2>1. 28 \notin FlagWords(g).bg /\ 29 \notin FlagWords(g).bg
      BY <1>14
    <2>2. QED
      BY <1>18, <2>1 DEF BG_LINK, BG_UCOLOR
  <1>33. attrs' = Blankness(Styled(attrs, F \cup (g \ StyleField), style))
    BY <1>1, <1>5, <1>6, <1>8
  <1>34. attrs' = Answer(content.cp, UnpackColor(fg), UnpackColor(bg), style, G, C_COMBINED \in content.bits,
                         C_LEADING_SPACER \in content.bits, BG_LINK \in bg.bits, BG_UCOLOR \in bg.bits)
    BY <1>4, <1>28, <1>33, StyleAnswers
  <1>35. attrs' = AnswerOf(content', fg', bg')
    BY <1>20, <1>21, <1>22, <1>24, <1>25, <1>30, <1>31, <1>32, <1>34 DEF AnswerOf
  <1>36. QED
    BY <1>26, <1>35 DEF CellInv

LEMMA RemoveFlagsKeeps ==
  ASSUME CellInv, RemoveFlags
  PROVE  CellInv'
  <1>1. PICK g \in FlagInputs :
          /\ content' = [content EXCEPT !.bits = Removed(content.bits, FlagWords(g).content)]
          /\ fg' = [fg EXCEPT !.bits = fg.bits \ FlagWords(g).fg] /\ bg' = [bg EXCEPT !.bits = bg.bits \ FlagWords(g).bg]
          /\ attrs' = Blankness(Styled(attrs, attrs.flags \ (g \ StyleField), IF NormalStyle(g) = 0 THEN attrs.style ELSE 0))
    BY DEF RemoveFlags, Promise
  <1>2. g \in SUBSET (0..13)
    BY PackedAssumption
  <1>3. PICK F : F = FlagsOf(content, fg, bg) \ StyleField
    OBVIOUS
  <1>4. attrs = Answer(content.cp, UnpackColor(fg), UnpackColor(bg), StyleOf(content), F, C_COMBINED \in content.bits,
                       C_LEADING_SPACER \in content.bits, BG_LINK \in bg.bits, BG_UCOLOR \in bg.bits)
    BY <1>3 DEF CellInv, AnswerOf
  <1>5. attrs.flags = F /\ attrs.style = StyleOf(content)
    BY <1>4, AnswersRead
  <1>6. PICK n : n = NormalStyle(g)
    OBVIOUS
  <1>7. n \in 0..5
    BY <1>2, <1>6, StyleNamed
  <1>8. PICK style : style = IF n = 0 THEN StyleOf(content) ELSE 0
    OBVIOUS
  <1>9. style \in 0..5
    BY <1>7, <1>8 DEF CellInv, SoundWords
  <1>10. PICK w : w = FlagWords(g).content
    OBVIOUS
  <1>11. PICK x : x = Removed(content.bits, w)
    OBVIOUS
  <1>12. PICK y : y = fg.bits \ FlagWords(g).fg
    OBVIOUS
  <1>13. PICK z : z = bg.bits \ FlagWords(g).bg
    OBVIOUS
  <1>14. /\ w \in SUBSET (22..28) /\ FlagWords(g).fg \in SUBSET (24..31)
         /\ FlagWords(g).bg \in SUBSET {26, 27} /\ w \cap StyleBits = Moved(Bits(n), 26)
    BY <1>2, <1>6, <1>10, WordsOf
  <1>15. content.bits \in SUBSET (21..28)
    BY DEF CellInv, SoundWords
  <1>16. /\ x \in SUBSET (21..28)
         /\ x \cap StyleBits = IF n = 0 THEN content.bits \cap StyleBits ELSE {}
         /\ \A k \in 21..25 : k \in x <=> k \in content.bits /\ k \notin w
    BY <1>7, <1>11, <1>14, <1>15, RemovedBits
  <1>17. y \in SUBSET (24..31) /\ \A k \in 24..31 : k \in y <=> k \in fg.bits /\ k \notin FlagWords(g).fg
    BY <1>12, <1>14 DEF CellInv, SoundWords
  <1>18. z \in SUBSET (24..31) /\ \A k \in 24..31 : k \in z <=> k \in bg.bits /\ k \notin FlagWords(g).bg
    <2>1. FlagWords(g).bg \in SUBSET (24..31)
      BY <1>14
    <2>2. QED
      BY <1>13, <2>1 DEF CellInv, SoundWords
  <1>19. content' = [cp |-> content.cp, bits |-> x]
    BY <1>1, <1>10, <1>11, WordKept DEF CellInv, SoundWords
  <1>20. fg' = [mode |-> fg.mode, payload |-> fg.payload, bits |-> y] /\ UnpackColor(fg') = UnpackColor(fg)
    BY <1>1, <1>12, ColorKept DEF CellInv, SoundWords
  <1>21. bg' = [mode |-> bg.mode, payload |-> bg.payload, bits |-> z] /\ UnpackColor(bg') = UnpackColor(bg)
    BY <1>1, <1>13, ColorKept DEF CellInv, SoundWords
  <1>22. content'.bits = x /\ content'.cp = content.cp
    BY <1>19
  <1>23. fg'.bits = y /\ fg'.mode = fg.mode /\ fg'.payload = fg.payload
    BY <1>20
  <1>24. bg'.bits = z /\ bg'.mode = bg.mode /\ bg'.payload = bg.payload
    BY <1>21
  <1>25. StyleOf(content') = style
    <2>1. CASE n = 0
      BY <1>8, <1>16, <1>22, <2>1 DEF StyleOf
    <2>2. CASE n # 0
      <3>1. x \in SUBSET Int /\ x \cap StyleBits = Moved(Bits(0), 26)
        BY <1>16, <2>2, StyleBitsOf
      <3>2. QED
        BY <1>7, <1>8, <1>22, <2>2, <3>1, StyleTold DEF StyleOf
    <2>3. QED
      BY <2>1, <2>2
  <1>26. SoundWords(content', fg', bg')
    BY <1>9, <1>16, <1>17, <1>18, <1>19, <1>20, <1>21, <1>22, <1>23, <1>24, <1>25 DEF SoundWords
  <1>27. Answers(F, StyleOf(content), content.bits, fg.bits, bg.bits)
    BY <1>3, FlagsAnswer DEF CellInv, SoundWords
  <1>28. PICK G : G = Underlined(F \ (g \ StyleField), style)
    OBVIOUS
  <1>29. Answers(G, style, x, y, z)
    BY <1>2, <1>10, <1>16, <1>17, <1>18, <1>27, <1>28, RemovedAnswers
  <1>30. FlagsOf(content', fg', bg') \ StyleField = G
    BY <1>22, <1>23, <1>24, <1>25, <1>26, <1>29, FlagsGiven
  <1>31. (C_COMBINED \in x) = (C_COMBINED \in content.bits) /\ (C_LEADING_SPACER \in x) = (C_LEADING_SPACER \in content.bits)
    <2>1. 21 \notin w /\ 25 \notin w
      <3>1. 25 \notin w
        BY <1>2, <1>10, NoSpacer
      <3>2. QED
        BY <1>14, <3>1
    <2>2. QED
      BY <1>16, <2>1 DEF C_COMBINED, C_LEADING_SPACER
  <1>32. (BG_LINK \in z) = (BG_LINK \in bg.bits) /\ (BG_UCOLOR \in z) = (BG_UCOLOR \in bg.bits)
    <2>1. 28 \notin FlagWords(g).bg /\ 29 \notin FlagWords(g).bg
      BY <1>14
    <2>2. QED
      BY <1>18, <2>1 DEF BG_LINK, BG_UCOLOR
  <1>33. attrs' = Blankness(Styled(attrs, F \ (g \ StyleField), style))
    BY <1>1, <1>5, <1>6, <1>8
  <1>34. attrs' = Answer(content.cp, UnpackColor(fg), UnpackColor(bg), style, G, C_COMBINED \in content.bits,
                         C_LEADING_SPACER \in content.bits, BG_LINK \in bg.bits, BG_UCOLOR \in bg.bits)
    BY <1>4, <1>28, <1>33, StyleAnswers
  <1>35. attrs' = AnswerOf(content', fg', bg')
    BY <1>20, <1>21, <1>22, <1>24, <1>25, <1>30, <1>31, <1>32, <1>34 DEF AnswerOf
  <1>36. QED
    BY <1>26, <1>35 DEF CellInv
----------------------------------------------------------------------------
(* A new cell. *)
\* The truth values, as the solver takes them in a record.
Truths(no, yes) == no = FALSE /\ yes = TRUE

LEMMA PlainClaim ==
  ASSUME NEW e, NEW no, NEW yes, e = {}, Truths(no, yes)
  PROVE  Plain = Claim(Space, <<0, 0>>, <<0, 0>>, 0, e, no, no, no, no, yes)
  BY DEF Plain, Claim, Truths

LEMMA Fresh ==
  ASSUME NEW c, NEW f, NEW b, NEW style, NEW flags, NEW no, NEW yes, Truths(no, yes)
  PROVE  Blankness(Made(c, f, b, flags, style))
           = Answer(c, f, b, style, flags, no, no, no, no)
  <1>1. PICK a : a = Made(c, f, b, flags, style)
    OBVIOUS
  <1>2. PICK p1 : p1 = [Plain EXCEPT !.c = c]
    OBVIOUS
  <1>3. PICK p2 : p2 = [p1 EXCEPT !.fg = f]
    OBVIOUS
  <1>4. PICK p3 : p3 = [p2 EXCEPT !.bg = b]
    OBVIOUS
  <1>5. PICK p4 : p4 = [p3 EXCEPT !.style = style]
    OBVIOUS
  <1>6. a = [p4 EXCEPT !.flags = flags]
    BY <1>1, <1>2, <1>3, <1>4, <1>5 DEF Made
  <1>7. PICK e : e = {}
    OBVIOUS
  <1>8. p1 = Claim(c, <<0, 0>>, <<0, 0>>, 0, e, no, no, no, no, yes)
    BY <1>2, <1>7, PlainClaim DEF Claim
  <1>9. p2 = Claim(c, f, <<0, 0>>, 0, e, no, no, no, no, yes)
    BY <1>3, <1>8 DEF Claim
  <1>10. p3 = Claim(c, f, b, 0, e, no, no, no, no, yes)
    BY <1>4, <1>9 DEF Claim
  <1>11. p4 = Claim(c, f, b, style, e, no, no, no, no, yes)
    BY <1>5, <1>10 DEF Claim
  <1>12. a = Claim(c, f, b, style, flags, no, no, no, no, yes)
    BY <1>6, <1>11 DEF Claim
  <1>13. Blankness(a) = Answer(c, f, b, style, flags, no, no, no, no)
    BY <1>12, AnswerBlanked
  <1>14. QED
    BY <1>1, <1>13

LEMMA FromPartsKeeps ==
  ASSUME FromParts
  PROVE  CellInv'
  <1>1. PICK p \in Chars, cf \in Payloads, cb \in Payloads, g \in FlagInputs :
          /\ content' = [cp |-> p, bits |-> FlagWords(g).content]
          /\ fg' = PackColor(cf, FlagWords(g).fg) /\ bg' = PackColor(cb, FlagWords(g).bg)
          /\ attrs' = Blankness(Made(p, cf, cb, Underlined(g \ StyleField, NormalStyle(g)), NormalStyle(g)))
    BY DEF FromParts, Promise
  <1>2. g \in SUBSET (0..13)
    BY PackedAssumption
  <1>3. PICK n : n = NormalStyle(g)
    OBVIOUS
  <1>4. n \in 0..5
    BY <1>2, <1>3, StyleNamed
  <1>5. PICK x : x = FlagWords(g).content
    OBVIOUS
  <1>6. PICK y : y = FlagWords(g).fg
    OBVIOUS
  <1>7. PICK z : z = FlagWords(g).bg
    OBVIOUS
  <1>8. x \in SUBSET (22..28) /\ y \in SUBSET (24..31) /\ z \in SUBSET {26, 27} /\ x \cap StyleBits = Moved(Bits(n), 26)
    BY <1>2, <1>3, <1>5, <1>6, <1>7, WordsOf
  <1>9. x \in SUBSET (21..28) /\ z \in SUBSET (24..31) /\ x \in SUBSET Int
    BY <1>8
  <1>10. content' = [cp |-> p, bits |-> x] /\ content'.bits = x /\ content'.cp = p
    BY <1>1, <1>5
  <1>11. UnpackColor(fg') = cf /\ fg'.bits = y /\ fg' = [mode |-> fg'.mode, payload |-> fg'.payload, bits |-> fg'.bits]
    BY <1>1, <1>6, ColorBack
  <1>12. UnpackColor(bg') = cb /\ bg'.bits = z /\ bg' = [mode |-> bg'.mode, payload |-> bg'.payload, bits |-> bg'.bits]
    BY <1>1, <1>7, ColorBack
  <1>13. StyleOf(content') = n
    BY <1>4, <1>8, <1>9, <1>10, StyleTold DEF StyleOf
  <1>14. SoundWords(content', fg', bg')
    BY <1>4, <1>8, <1>9, <1>10, <1>11, <1>12, <1>13 DEF SoundWords
  <1>15. PICK G : G = Underlined(g \ StyleField, n)
    OBVIOUS
  <1>16. Answers(G, n, x, y, z)
    <2>1. Answers({}, 0, {}, {}, {})
      BY DEF Answers
    <2>2. \A k \in 21..25 : k \in x <=> k \in {} \/ k \in FlagWords(g).content
      BY <1>5
    <2>3. \A k \in 24..31 : k \in y <=> k \in {} \/ k \in FlagWords(g).fg
      BY <1>6
    <2>4. \A k \in 24..31 : k \in z <=> k \in {} \/ k \in FlagWords(g).bg
      BY <1>7
    <2>5. Answers(Underlined({} \cup (g \ StyleField), n), n, x, y, z)
      BY <1>2, <2>1, <2>2, <2>3, <2>4, InsertedAnswers
    <2>6. {} \cup (g \ StyleField) = g \ StyleField
      OBVIOUS
    <2>7. QED
      BY <1>15, <2>5, <2>6
  <1>17. FlagsOf(content', fg', bg') \ StyleField = G
    BY <1>10, <1>11, <1>12, <1>13, <1>14, <1>16, FlagsGiven
  <1>18. C_COMBINED \notin x /\ C_LEADING_SPACER \notin x
    <2>1. 25 \notin x
      BY <1>2, <1>5, NoSpacer
    <2>2. 21 \notin x
      BY <1>8
    <2>3. QED
      BY <2>1, <2>2 DEF C_COMBINED, C_LEADING_SPACER
  <1>19. BG_LINK \notin z /\ BG_UCOLOR \notin z
    BY <1>8 DEF BG_LINK, BG_UCOLOR
  <1>20. PICK no, yes : Truths(no, yes)
    BY DEF Truths
  <1>21. attrs' = Answer(p, cf, cb, n, G, no, no, no, no)
    <2>1. attrs' = Blankness(Made(p, cf, cb, G, n))
      BY <1>1, <1>3, <1>15
    <2>2. QED
      BY <1>20, <2>1, Fresh
  <1>22. /\ (C_COMBINED \in x) = no /\ (C_LEADING_SPACER \in x) = no
         /\ (BG_LINK \in z) = no /\ (BG_UCOLOR \in z) = no
    <2>1. /\ (C_COMBINED \in x) = FALSE /\ (C_LEADING_SPACER \in x) = FALSE
          /\ (BG_LINK \in z) = FALSE /\ (BG_UCOLOR \in z) = FALSE
      BY <1>18, <1>19
    <2>2. FALSE = no
      BY <1>20 DEF Truths
    <2>3. QED
      BY <2>1, <2>2, Zenon
  <1>23. attrs' = AnswerOf(content', fg', bg')
    BY <1>10, <1>11, <1>12, <1>13, <1>17, <1>21, <1>22 DEF AnswerOf
  <1>24. QED
    BY <1>14, <1>23 DEF CellInv

\* The default cell.
LEMMA PlainAnswer ==
  ASSUME NEW e, NEW no, NEW yes, e = {}, Truths(no, yes)
  PROVE  Plain = Answer(Space, <<0, 0>>, <<0, 0>>, 0, e, no, no, no, no)
  <1>1. (Space = Space /\ ~no /\ ~no /\ e \cap {WIDE_CHAR, WIDE_CHAR_SPACER, WRAPLINE} = {}) = yes
    BY DEF Truths
  <1>2. Answer(Space, <<0, 0>>, <<0, 0>>, 0, e, no, no, no, no) = Claim(Space, <<0, 0>>, <<0, 0>>, 0, e, no, no, no, no, yes)
    BY <1>1, AnswersClaim
  <1>3. QED
    BY <1>2, PlainClaim

LEMMA EmptyWords ==
  ASSUME NEW c, NEW f, NEW b, NEW a, c = [cp |-> Space, bits |-> {}], f = PackColor(<<0, 0>>, {}), b = PackColor(<<0, 0>>, {}),
         a = Plain
  PROVE  SoundWords(c, f, b) /\ a = AnswerOf(c, f, b)
  <1>1. PICK e : e = {}
    OBVIOUS
  <1>2. PICK p : p = <<0, 0>>
    OBVIOUS
  <1>3. p[1] = 0
    BY <1>2
  <1>4. PackColor(p, e) = [mode |-> 0, payload |-> 0, bits |-> e]
    BY <1>3 DEF PackColor
  <1>5. c = [cp |-> Space, bits |-> e] /\ f = [mode |-> 0, payload |-> 0, bits |-> e] /\ b = [mode |-> 0, payload |-> 0, bits |-> e]
    BY <1>1, <1>2, <1>4
  <1>6. c.bits = e /\ c.cp = Space /\ f.bits = e /\ b.bits = e /\ f.mode = 0 /\ f.payload = 0 /\ b.mode = 0 /\ b.payload = 0
    BY <1>5
  <1>7. StyleOf(c) = 0
    <2>1. Moved(Bits(0), 26) = {}
      BY StyleBitsOf
    <2>2. e \in SUBSET Int /\ e \cap StyleBits = Moved(Bits(0), 26)
      BY <1>1, <2>1
    <2>3. 0 \in 0..5
      OBVIOUS
    <2>4. QED
      BY <1>6, <2>2, <2>3, StyleTold DEF StyleOf
  <1>8. SoundWords(c, f, b)
    <2>1. e \in SUBSET (21..28) /\ e \in SUBSET (24..31)
      BY <1>1
    <2>2. QED
      BY <1>5, <1>6, <1>7, <2>1 DEF SoundWords
  <1>9. Answers(e, 0, e, e, e)
    BY <1>1 DEF Answers
  <1>10. FlagsOf(c, f, b) \ StyleField = e
    BY <1>6, <1>7, <1>8, <1>9, FlagsGiven
  <1>11. UnpackColor(f) = <<0, 0>> /\ UnpackColor(b) = <<0, 0>>
    BY <1>6 DEF UnpackColor
  <1>12. PICK no, yes : Truths(no, yes)
    BY DEF Truths
  <1>13. /\ (C_COMBINED \in e) = no /\ (C_LEADING_SPACER \in e) = no
         /\ (BG_LINK \in e) = no /\ (BG_UCOLOR \in e) = no
    <2>1. /\ (C_COMBINED \in e) = FALSE /\ (C_LEADING_SPACER \in e) = FALSE
          /\ (BG_LINK \in e) = FALSE /\ (BG_UCOLOR \in e) = FALSE
      BY <1>1
    <2>2. FALSE = no
      BY <1>12 DEF Truths
    <2>3. QED
      BY <2>1, <2>2, Zenon
  <1>14. AnswerOf(c, f, b) = Answer(Space, <<0, 0>>, <<0, 0>>, 0, e, no, no, no, no)
    BY <1>6, <1>7, <1>10, <1>11, <1>13 DEF AnswerOf
  <1>15. QED
    BY <1>1, <1>8, <1>12, <1>14, PlainAnswer

LEMMA ResetKeeps ==
  ASSUME Reset
  PROVE  CellInv'
  <1>1. PICK e : e = {}
    OBVIOUS
  <1>2. PICK no, yes : Truths(no, yes)
    BY DEF Truths
  <1>3. Plain = Claim(Space, <<0, 0>>, <<0, 0>>, 0, e, no, no, no, no, yes)
    BY <1>1, <1>2, PlainClaim
  <1>4. Blankness(Plain) = Answer(Space, <<0, 0>>, <<0, 0>>, 0, e, no, no, no, no)
    BY <1>3, AnswerBlanked
  <1>5. Blankness(Plain) = Plain
    BY <1>1, <1>2, <1>4, PlainAnswer
  <1>6. content' = [cp |-> Space, bits |-> {}] /\ fg' = PackColor(<<0, 0>>, {}) /\ bg' = PackColor(<<0, 0>>, {}) /\ attrs' = Plain
    BY <1>5 DEF Reset, Promise
  <1>7. QED
    BY <1>6, EmptyWords DEF CellInv

LEMMA CellStarts ==
  ASSUME CellInit
  PROVE  CellInv
  BY EmptyWords DEF CellInit, CellInv

LEMMA CellStep ==
  ASSUME CellInv, [CellNext]_cellVars
  PROVE  CellInv'
  <1>1. CASE CellNext
    BY <1>1, FromPartsKeeps, SetCKeeps, SetFgKeeps, SetBgKeeps, SetCombinedKeeps, SetLeadingSpacerKeeps, SetLinkedKeeps,
       SetUcoloredKeeps, SetUnderlineStyleKeeps, InsertFlagsKeeps, RemoveFlagsKeeps, ResetKeeps DEF CellNext
  <1>2. CASE UNCHANGED cellVars
    BY <1>2 DEF cellVars, CellInv
  <1>3. QED
    BY <1>1, <1>2

\* Whatever is set through one reader's word, every other reader still answers what it was last
\* given (cell.rs), for any characters, colours and flags, and any number of operations.
THEOREM CellTells == CellSpec => []AttributesAreIndependent
  <1>1. CellInit => CellInv
    BY CellStarts
  <1>2. CellInv /\ [CellNext]_cellVars => CellInv'
    BY CellStep
  <1>3. CellInv => AttributesAreIndependent
    BY ReadAnswers DEF CellInv, AttributesAreIndependent
  <1>4. QED
    BY <1>1, <1>2, <1>3, PTL DEF CellSpec
=============================================================================
