------------------------------ MODULE Anchors -------------------------------
(* The holders of an absolute line in justerm-core's terminal: decoration      *)
(* markers, tracked points and the selection's two endpoints, and the verbs    *)
(* that move, drop or blank the rows under them (justerm-core/src/term.rs,     *)
(* term/markers.rs, term/tracked.rs, term/selection.rs).                       *)
(*                                                                             *)
(* A row is the set of holders whose content it carries: the verbs move rows,  *)
(* the fixups move the recorded lines, and the two must agree.  What is        *)
(* written in a row, its columns and its soft wraps are left out; where the    *)
(* code looks at them (which trailing rows a shrink may trim, how far up the   *)
(* cursor's logical line reaches, what select-all finds) any outcome is        *)
(* possible.  The column half of a resize is a reflow and is not modelled.     *)
EXTENDS Naturals, FiniteSets, Sequences

CONSTANTS
  MaxRows,        \* the tallest screen an instance explores
  Limit,          \* scrollback_limit
  MaxMarkers,     \* MAX_MARKERS: live markers per buffer
  MaxHolders,     \* bound: live markers and points, plus a selection
  MaxCount        \* bound on the counters: evicted_total, marker_epoch and the
                  \* ids; an instance sets it above what its states need

ASSUME AnchorConstants ==
  /\ MaxRows \in Nat \ {0} /\ MaxMarkers \in Nat \ {0}
  /\ {Limit, MaxHolders, MaxCount} \subseteq Nat

VARIABLE term  \* the terminal; its "out" is what the last call pushed, the
               \* host having drained the calls before

vars == term

Blank == {}
Blanks(n) == [i \in 1..n |-> Blank]
Mark(id) == <<"mark", id>>
Point(id) == <<"point", id>>
Ends == {"anchor", "focus"}
End(e) == <<"end", e>>

(* ---- where things are --------------------------------------------------- *)
Rows(t) == Len(t.grid)
Base(t) == Len(t.hist)
LastLine(t) == Base(t) + Rows(t) - 1
(* abs_floor: the alternate screen has no history of its own                   *)
Floor(t) == IF t.alt THEN Base(t) ELSE 0
Active(t) == IF t.alt THEN "alternate" ELSE "normal"
(* a buffer is history followed by its screen, wherever the screen is stored   *)
Buffer(t, which) ==
  t.hist \o (IF which = Active(t) THEN t.grid ELSE t.other)
Owner(buffer, tag) == {i - 1 : i \in {j \in DOMAIN buffer : tag \in buffer[j]}}

MarkIds(ms) == {ms[i].id : i \in DOMAIN ms}
MarkLines(ms) == {ms[i].line : i \in DOMAIN ms}
LinesOf(holders) == {h.line : h \in holders}

(* ---- events -------------------------------------------------------------- *)
Disposed(id) == [kind |-> "disposed", id |-> id]
Announce(t, ms) ==
  [t EXCEPT !.out = @ \o [i \in DOMAIN ms |-> Disposed(ms[i].id)]]

(* the markers of a list that are among ids, in list order                     *)
Among(ms, ids) ==
  LET upto[n \in 0..Len(ms)] ==
        IF n = 0 THEN <<>>
        ELSE IF ms[n].id \in ids THEN Append(upto[n - 1], ms[n])
             ELSE upto[n - 1]
  IN upto[Len(ms)]

OnLines(ms, lines) == {ms[i].id : i \in {j \in DOMAIN ms : ms[j].line \in lines}}
MovedBy(ms, move) == [i \in DOMAIN ms |-> [ms[i] EXCEPT !.line = move[@]]]

(* a list without the markers in gone, the others moved to where move takes    *)
(* their line; announce those that went, in list order                         *)
Sift(t, which, gone, move) ==
  LET ms == t.marks[which] IN
  Announce([t EXCEPT !.marks[which] =
              MovedBy(Among(ms, MarkIds(ms) \ gone), move)],
           Among(ms, gone))

Less(l, n) == IF l > n THEN l - n ELSE 0
Clamp(l, last) == IF l > last THEN last ELSE l

(* where a line goes: nowhere; n up; one up or down within a region            *)
Still == [l \in Nat |-> l]
Raised(n) == [l \in Nat |-> Less(l, n)]
Turned(top, bottom, up) ==
  [l \in Nat |-> IF l < top \/ l > bottom THEN l
                 ELSE IF up THEN Less(l, 1) ELSE l + 1]

BumpEpoch(t) == [t EXCEPT !.epoch = @ + 1]
AnyMarks(t) == t.marks.normal # <<>> \/ t.marks.alternate # <<>>

(* a selection endpoint whose row went and which was clamped belongs, from     *)
(* then on, to the row it was clamped to                                       *)
Adopt(t) ==
  IF t.sel = {} THEN t
  ELSE LET s == CHOOSE x \in t.sel : TRUE
           homeless == {e \in Ends :
                          Owner(Buffer(t, Active(t)), End(e)) = {}}
           At(i) == {End(e) : e \in {x \in homeless : s[x] = i}}
       IN [t EXCEPT
             !.hist = [i \in DOMAIN @ |-> @[i] \cup At(i - 1)],
             !.grid = [i \in DOMAIN @ |-> @[i] \cup At(Base(t) + i - 1)]]

(* the selection was taken away by a decision of its own: forget its rows      *)
Deselect(t) ==
  LET Bare(rows) == [i \in DOMAIN rows |-> rows[i] \ {End(e) : e \in Ends}] IN
  [t EXCEPT !.sel = {}, !.hist = Bare(@), !.grid = Bare(@), !.other = Bare(@)]

(* ---- lines left the front of the buffer ---------------------------------- *)
(* selection_evict_oldest: an endpoint on a dropped line clamps to line 0, a   *)
(* selection wholly on them is cleared                                         *)
SelectionEvict(t, n) ==
  [t EXCEPT !.sel =
     {[e \in Ends |-> IF s[e] < n THEN 0 ELSE s[e] - n] :
        s \in {x \in @ : \E e \in Ends : x[e] >= n}}]

(* (mutant) only the active buffer's markers are walked                        *)
MarkersEvictActive(t, n) ==
  Sift(t, Active(t), OnLines(t.marks[Active(t)], 0..(n - 1)), Raised(n))

(* markers_evict_oldest: both populations                                      *)
MarkersEvict(t, n) ==
  LET One(u, which) ==
        Sift(u, which, OnLines(u.marks[which], 0..(n - 1)), Raised(n))
  IN One(One(t, "normal"), "alternate")

(* tracked_evict_oldest: both populations                                      *)
TrackedEvict(t, n) ==
  [t EXCEPT !.points =
     [which \in DOMAIN @ |->
        {[p EXCEPT !.line = @ - n] :
           p \in {q \in @[which] : q.line >= n}}]]

(* lines_left_the_front, after the rows themselves went                        *)
LinesLeftTheFront(t, n) ==
  Adopt(TrackedEvict(MarkersEvict(SelectionEvict(
    [t EXCEPT !.evicted = @ + n], n), n), n))

(* erase_history: ED 3 and the first half of clear                             *)
EraseHistory(t) ==
  LET n == Base(t) IN
  IF n = 0 THEN t ELSE LinesLeftTheFront([t EXCEPT !.hist = <<>>], n)

(* ---- rows rotated within a region of the screen -------------------------- *)
RotateRows(grid, top, bottom, up) ==
  [i \in DOMAIN grid |->
     LET r == i - 1
         source == IF up THEN r + 1 ELSE r - 1
         blank == IF up THEN bottom ELSE top
     IN CASE r < top \/ r > bottom -> grid[i]
          [] r = blank -> Blank
          [] OTHER -> grid[source + 1]]

(* selection_rotate_region.  The endpoints in buffer order are start and end;  *)
(* each is shifted only if its line is in the region, the upper clamps at the  *)
(* top, the lower at the bottom, and an overtake clears the selection          *)
SelectionRotate(t, top, bottom, up) ==
  LET Shift(l) == IF l < top \/ l > bottom THEN l
                  ELSE IF up THEN l - 1 ELSE l + 1
      (* lines are compared one higher, so that a shift above line 0 stays a   *)
      (* natural number                                                        *)
      Up1(l) == IF l < top \/ l > bottom THEN l + 1
                ELSE IF up THEN l ELSE l + 2
      Rotated(s) ==
        LET first == IF s["anchor"] <= s["focus"] THEN "anchor" ELSE "focus"
            second == CHOOSE e \in Ends : e # first
            In(l) == l >= top /\ l <= bottom
            overtakes == /\ In(s[first]) /\ Up1(s[first]) > bottom + 1
                         /\ s[second] <= bottom
            start == IF In(s[first]) /\ Up1(s[first]) < top + 1
                       THEN top ELSE Shift(s[first])
            falls == In(s[second]) /\ Up1(s[second]) < start + 1
            end == IF In(s[second]) /\ Up1(s[second]) > bottom + 1
                     THEN bottom ELSE Shift(s[second])
        IN IF overtakes \/ falls THEN {}
           ELSE {[e \in Ends |-> IF e = first THEN start ELSE end]}
  IN [t EXCEPT !.sel = UNION {Rotated(s) : s \in @}]

(* (mutant) a rotate moves markers and leaves the epoch alone                  *)
MarkersRotateQuietly(t, top, bottom, up) ==
  Sift(t, Active(t),
       OnLines(t.marks[Active(t)], {IF up THEN top ELSE bottom}),
       Turned(top, bottom, up))

(* markers_rotate_region: the active buffer's; only a survivor that moved      *)
(* moves the epoch                                                             *)
MarkersRotate(t, top, bottom, up) ==
  LET edge == IF up THEN top ELSE bottom
      ms == t.marks[Active(t)]
      moved == OnLines(ms, (top..bottom) \ {edge}) # {}
      u == Sift(t, Active(t), OnLines(ms, {edge}), Turned(top, bottom, up))
  IN IF moved THEN BumpEpoch(u) ELSE u

(* tracked_rotate_region: the active buffer's                                  *)
TrackedRotate(t, top, bottom, up) ==
  LET edge == IF up THEN top ELSE bottom
      move == Turned(top, bottom, up)
  IN [t EXCEPT !.points[Active(t)] =
        {[p EXCEPT !.line = move[@]] : p \in {q \in @ : q.line # edge}}]

(* one line of an in-screen scroll of screen rows top..bottom                  *)
RotateOnce(t, top, bottom, up) ==
  LET a == Base(t) + top
      b == Base(t) + bottom
      shifted == [t EXCEPT !.grid = RotateRows(@, top, bottom, up)]
  IN Adopt(TrackedRotate(MarkersRotate(SelectionRotate(
       shifted, a, b, up), a, b, up), a, b, up))

(* scroll_region_lines, at most a region's height of lines                     *)
ScrollRegionLines(t, top, bottom, n, up) ==
  LET times == Clamp(n, bottom - top + 1)
      after[k \in 0..times] ==
        IF k = 0 THEN t ELSE RotateOnce(after[k - 1], top, bottom, up)
  IN after[times]

(* ---- a screen that loses or gains rows (resize, columns unchanged) -------- *)
(* reflow_pane: how many vacant rows below the cursor a shrink trims is a      *)
(* question of what is written in them, except that no row a pinned holder is  *)
(* on is trimmed                                                               *)
Trims(all, cursor, removed, pinned) ==
  {k \in 0..removed :
     /\ Len(all) - k >= cursor + 1
     /\ \A line \in pinned : line < Len(all) - k \/ line >= Len(all)}

(* the pane after the trim: its history, what the cap dropped of it, its screen*)
Pane(all, k, rows, limit) ==
  LET kept == SubSeq(all, 1, Len(all) - k)
      split == IF Len(kept) > rows THEN Len(kept) - rows ELSE 0
      dropped == IF split > limit THEN split - limit ELSE 0
      screen == SubSeq(kept, split + 1, Len(kept))
  IN [hist |-> SubSeq(kept, dropped + 1, split),
      screen |-> screen \o Blanks(rows - Len(screen)),
      split |-> split,
      dropped |-> dropped,
      last |-> split + rows - 1]

(* selection_reflowed: the endpoints land where their rows did, then the       *)
(* dropped lines leave as in selection_evict_oldest                            *)
SelectionReflowed(t, pane) ==
  SelectionEvict([t EXCEPT !.sel =
    {[e \in Ends |-> Clamp(s[e], pane.last)] : s \in @}], pane.dropped)

(* a marker of the primary buffer saturates at line 0 when its row went; a     *)
(* tracked point is released                                                   *)
PrimaryReflowed(t, pane) ==
  [t EXCEPT
     !.marks.normal =
        MovedBy(@, [l \in Nat |-> Less(Clamp(l, pane.last), pane.dropped)]),
     !.stranded = @ \cup {id \in MarkIds(t.marks.normal) :
                            Owner(pane.hist \o pane.screen, Mark(id)) = {}},
     !.points.normal =
        {[p EXCEPT !.line = Clamp(@, pane.last) - pane.dropped] :
           p \in {q \in @ : Clamp(q.line, pane.last) >= pane.dropped}}]

(* the alternate buffer's holders count from the top of their screen, which    *)
(* moved from old lines of history to new; one whose row went is gone          *)
AlternateReflowed(t, pane, old, new) ==
  LET Row(l) == Clamp(l - old, pane.last)
      move == [l \in Nat |-> new + Less(Row(l), pane.dropped)]
      ms == t.marks.alternate
      gone == OnLines(ms, {l \in MarkLines(ms) : Row(l) < pane.dropped})
      u == Sift(t, "alternate", gone, move)
  IN [u EXCEPT !.points.alternate =
        {[p EXCEPT !.line = move[@]] :
           p \in {q \in @ : Row(q.line) >= pane.dropped}}]

(* the scroll region is a range over the screen it was set on                  *)
FullRegion(t, rows) == [t EXCEPT !.top = 0, !.bottom = rows - 1]

ResizePrimaryUp(t, rows) ==
  LET all == t.hist \o t.grid
      cursor == Base(t) + t.row
      removed == Less(Rows(t), rows)
      pinned == MarkLines(t.marks.normal) \cup LinesOf(t.points.normal)
                  \cup UNION {{s[e] : e \in Ends} : s \in t.sel}
      After(k) ==
        LET pane == Pane(all, k, rows, Limit)
            other == Pane(t.other, 0, rows, 0)
            u == SelectionReflowed(PrimaryReflowed(t, pane), pane)
        IN Adopt([u EXCEPT !.hist = pane.hist, !.grid = pane.screen,
                           !.other = other.screen,
                           !.row = Clamp(Less(cursor, pane.split), rows - 1)])
  IN {After(k) : k \in Trims(all, cursor, removed, pinned)}

(* the primary's pane loses k vacant rows, the alternate screen j              *)
TrimmedUnderAlternate(t, rows, k, j) ==
  LET pane == Pane(t.hist \o t.other, k, rows, Limit)
      alt == Pane(t.grid, j, rows, 0)
      u == AlternateReflowed(PrimaryReflowed(t, pane), alt,
                             Base(t), Len(pane.hist))
      cursor == Base(t) + t.saved
  IN [u EXCEPT !.hist = pane.hist, !.other = pane.screen, !.grid = alt.screen,
               !.saved = Clamp(Less(cursor, pane.split), rows - 1),
               !.row = Clamp(Less(@, alt.split), rows - 1)]

ResizeAlternateUp(t, rows) ==
  LET removed == Less(Rows(t), rows)
      pinned == MarkLines(t.marks.normal) \cup LinesOf(t.points.normal)
      onAlt == {l - Base(t) : l \in MarkLines(t.marks.alternate)
                                      \cup LinesOf(t.points.alternate)}
  IN UNION {{TrimmedUnderAlternate(t, rows, k, j) :
               j \in Trims(t.grid, t.row, removed, onAlt)} :
              k \in Trims(t.hist \o t.other, Base(t) + t.saved, removed, pinned)}

(* every state a resize to rows may leave: one bump of the epoch for the whole *)
(* of it, the alternate screen's selection dropped, and the region reset, each *)
(* only when the geometry moved                                                *)
Resized(t, rows) ==
  LET changed == rows # Rows(t)
      t1 == IF changed /\ AnyMarks(t) THEN BumpEpoch(t) ELSE t
      t2 == IF changed /\ t.alt THEN Deselect(t1) ELSE t1
      panes == IF t.alt THEN ResizeAlternateUp(t2, rows)
               ELSE ResizePrimaryUp(t2, rows)
  IN IF changed THEN {FullRegion(u, rows) : u \in panes} ELSE panes

(* ---- a row's marks retired where it stands -------------------------------- *)
Forget(t, tags) ==
  LET Bare(rows) == [i \in DOMAIN rows |-> rows[i] \ tags] IN
  [t EXCEPT !.hist = Bare(@), !.grid = Bare(@), !.other = Bare(@)]

(* dispose_markers_on_row, on a screen row a verb blanked whole: what the      *)
(* marks were about is gone; points and endpoints name the line and stay       *)
DisposeOnRow(t, row) ==
  LET line == Base(t) + row
      u == Sift(t, Active(t), OnLines(t.marks[Active(t)], {line}), Still)
  IN [u EXCEPT !.grid[row + 1] = {tag \in @ : tag[1] # "mark"}]

BlankRows(t, first, last) ==
  LET count == Less(last + 1, first)
      after[k \in 0..count] ==
        IF k = 0 THEN t ELSE DisposeOnRow(after[k - 1], first + k - 1)
  IN after[count]

(* the row at a line, of rows that start at line base, carries a new holder     *)
Carry(rows, base, line, tag) ==
  [i \in DOMAIN rows |->
     IF base + i - 1 = line THEN rows[i] \cup {tag} ELSE rows[i]]

(* push_marker: at the cap the oldest give way, announced before the birth     *)
PushMarker(t, line) ==
  LET which == Active(t)
      n == Len(t.marks[which])
      over == IF n >= MaxMarkers THEN n - MaxMarkers + 1 ELSE 0
      retired == SubSeq(t.marks[which], 1, over)
      id == t.nextMark
      born == [kind |-> "created", id |-> id, line |-> line,
               evicted |-> t.evicted, epoch |-> t.epoch]
      u == Forget(Announce(t, retired),
                  {Mark(x) : x \in MarkIds(retired)})
  IN [u EXCEPT !.marks[which] = Append(SubSeq(@, over + 1, n),
                                       [id |-> id, line |-> line]),
               !.nextMark = id + 1,
               !.out = Append(@, born),
               !.hist = Carry(@, 0, line, Mark(id)),
               !.grid = Carry(@, Base(t), line, Mark(id))]

(* ---- the terminal as built, and its calls --------------------------------- *)
PowerOn(rows) ==
  [hist |-> <<>>, grid |-> Blanks(rows), other |-> Blanks(rows),
   alt |-> FALSE, row |-> 0, saved |-> 0, top |-> 0, bottom |-> rows - 1,
   marks |-> [normal |-> <<>>, alternate |-> <<>>],
   points |-> [normal |-> {}, alternate |-> {}],
   sel |-> {}, nextMark |-> 0, nextPoint |-> 0,
   evicted |-> 0, epoch |-> 0, out |-> <<>>,
   stranded |-> {}]  \* not in the code: the marks PrimaryReflowed saturated

Init == \E rows \in 1..MaxRows : term = PowerOn(rows)

LiveMarks(t) == MarkIds(t.marks.normal) \cup MarkIds(t.marks.alternate)
LivePoints(t) == {p.id : p \in t.points.normal \cup t.points.alternate}

(* a call starts with its events drained; the bounds end the exploration       *)
now == [term EXCEPT !.out = <<>>]
Call(t) ==
  /\ Cardinality(LiveMarks(t)) + Cardinality(LivePoints(t))
       + Cardinality(t.sel) <= MaxHolders
  /\ \A n \in {t.evicted, t.epoch, t.nextMark, t.nextPoint} : n <= MaxCount
  /\ term' = t

Visible(t) == Floor(t)..LastLine(t)

(* add_marker, at a row of the viewport                                        *)
AddMarker(line) ==
  /\ line \in Visible(term)
  /\ Call(PushMarker(now, line))

(* add_command_mark (OSC 133), at the cursor; nothing on the alternate screen  *)
AddCommandMark ==
  /\ ~ term.alt
  /\ Call(PushMarker(now, Base(term) + term.row))

RemoveMarker(id) ==
  /\ id \in LiveMarks(term)
  /\ Call(Forget(Sift(Sift(now, "normal", {id}, Still),
                      "alternate", {id}, Still), {Mark(id)}))

(* track_point, at any line the active buffer has                              *)
TrackPoint(line) ==
  LET id == term.nextPoint IN
  /\ line \in Visible(term)
  /\ Call([now EXCEPT
             !.points[Active(term)] = @ \cup {[id |-> id, line |-> line]},
             !.nextPoint = id + 1,
             !.hist = Carry(@, 0, line, Point(id)),
             !.grid = Carry(@, Base(term), line, Point(id))])

UntrackPoint(id) ==
  LET Without(ps) == {p \in ps : p.id # id} IN
  /\ id \in LivePoints(term)
  /\ Call(Forget([now EXCEPT !.points = [which \in DOMAIN @ |->
                                            Without(@[which])]],
                 {Point(id)}))

(* selection_begin, selection_extend and select_all, which sets both ends      *)
Select(anchor, focus) ==
  /\ {anchor, focus} \subseteq Visible(term)
  /\ Call(Adopt([Deselect(now) EXCEPT
                   !.sel = {[e \in Ends |-> IF e = "anchor" THEN anchor
                                            ELSE focus]}]))
SelectionBegin(line) == Select(line, line)
SelectionExtend(line) == \E s \in term.sel : Select(s["anchor"], line)
SelectAll(first, last) == first <= last /\ Select(first, last)
SelectionClear == term.sel # {} /\ Call(Deselect(now))

Goto(row) ==
  /\ row \in 0..(Rows(term) - 1)
  /\ Call([now EXCEPT !.row = row])

(* DECSTBM homes the cursor: to the screen's top, to the region's in origin    *)
(* mode                                                                        *)
SetScrollRegion(top, bottom) ==
  /\ top < bottom /\ bottom < Rows(term)
  /\ \E home \in {0, top} :
       Call([now EXCEPT !.top = top, !.bottom = bottom, !.row = home])

(* the *_shift_below_margin fixups: history grew under rows that stayed put on *)
(* the screen.  Only a marker that moved moves the epoch                       *)
ShiftBelow(t, from) ==
  LET move == [l \in Nat |-> IF l >= from THEN l + 1 ELSE l]
      moved == \E l \in MarkLines(t.marks.normal) : l >= from
      u == [t EXCEPT
              !.sel = {[e \in Ends |-> move[s[e]]] : s \in @},
              !.marks.normal = MovedBy(@, move),
              !.points.normal = {[p EXCEPT !.line = move[@]] : p \in @}]
  IN IF moved THEN BumpEpoch(u) ELSE u

(* the top row of a top-anchored region of the primary screen enters history;  *)
(* past the cap the oldest line leaves the buffer                              *)
Accrue(t) ==
  LET full == t.bottom = Rows(t) - 1
      anchors == IF full THEN t ELSE ShiftBelow(t, Base(t) + t.bottom + 1)
      pushed == [anchors EXCEPT !.hist = Append(@, t.grid[1]),
                                !.grid = RotateRows(@, 0, t.bottom, TRUE)]
  IN IF Len(pushed.hist) > Limit
       THEN LinesLeftTheFront([pushed EXCEPT !.hist = Tail(@)], 1)
       ELSE pushed

Linefeed ==
  \/ /\ term.row = term.bottom /\ term.top = 0 /\ ~ term.alt
     /\ Call(Accrue(now))
  \/ /\ term.row = term.bottom /\ (term.top > 0 \/ term.alt)
     /\ Call(RotateOnce(now, term.top, term.bottom, TRUE))
  \/ /\ term.row # term.bottom /\ term.row + 1 < Rows(term)
     /\ Call([now EXCEPT !.row = @ + 1])

ReverseIndex ==
  \/ /\ term.row = term.top
     /\ Call(RotateOnce(now, term.top, term.bottom, FALSE))
  \/ /\ term.row # term.top /\ term.row > 0
     /\ Call([now EXCEPT !.row = @ - 1])

(* SU and SD scroll the region; IL and DL scroll from the cursor's row, and    *)
(* only inside it                                                              *)
ScrollLines(n, up) ==
  Call(ScrollRegionLines(now, term.top, term.bottom, n, up))
InsertOrDeleteLines(n, up) ==
  /\ term.top <= term.row /\ term.row <= term.bottom
  /\ Call(ScrollRegionLines(now, term.row, term.bottom, n, up))

(* ED: whole rows below the cursor, above it, all of them, or history          *)
EraseDisplay(mode) ==
  Call(CASE mode = 0 -> BlankRows(now, term.row + 1, Rows(term) - 1)
         [] mode = 1 -> IF term.row = 0 THEN now
                        ELSE BlankRows(now, 0, term.row - 1)
         [] mode = 2 -> BlankRows(now, 0, Rows(term) - 1)
         [] mode = 3 -> EraseHistory(now))

(* Engine::clear, out of band: the cursor's logical line, from screen row top  *)
(* down, becomes the top of the screen; all above it goes, all below is blank  *)
Clear(top) ==
  /\ ~ term.alt /\ top <= term.row
  /\ LET moved == [now EXCEPT
                     !.hist = @ \o SubSeq(term.grid, 1, top),
                     !.grid = SubSeq(@, top + 1, Rows(term)) \o Blanks(top),
                     !.row = @ - top]
         kept == Deselect(EraseHistory(moved))
     IN Call(BlankRows(kept, kept.row + 1, Rows(term) - 1))

(* switch_to_alt: the pulled index now describes the other buffer              *)
SwitchToAlt ==
  /\ ~ term.alt
  /\ LET t == Deselect(IF AnyMarks(now) THEN BumpEpoch(now) ELSE now)
     IN Call([t EXCEPT !.saved = t.row, !.alt = TRUE, !.other = t.grid,
                       !.grid = Blanks(Rows(t))])

(* switch_to_primary: the alternate buffer's holders die with it; what is left *)
(* in saved is not read again                                                  *)
SwitchToPrimary ==
  /\ term.alt
  /\ LET t == Announce(Deselect(now), term.marks.alternate)
         bumped == IF t.marks.normal # <<>> THEN BumpEpoch(t) ELSE t
     IN Call([bumped EXCEPT !.marks.alternate = <<>>,
                            !.points.alternate = {},
                            !.alt = FALSE, !.saved = 0,
                            !.grid = t.other,
                            !.other = Blanks(Rows(t))])

Resize(rows) == \E t \in Resized(now, rows) : Call(t)

(* RIS: everything is rebuilt but the id counters and the epoch, which moves   *)
FullReset ==
  LET gone == Announce(Announce(now, term.marks.normal), term.marks.alternate)
  IN Call(BumpEpoch([PowerOn(Rows(term)) EXCEPT
                       !.nextMark = term.nextMark,
                       !.nextPoint = term.nextPoint,
                       !.epoch = term.epoch,
                       !.out = gone.out]))

Next ==
  \/ \E line \in Visible(term) :
       \/ AddMarker(line) \/ TrackPoint(line)
       \/ SelectionBegin(line) \/ SelectionExtend(line)
  \/ \E a, b \in Visible(term) : SelectAll(a, b)
  \/ AddCommandMark \/ SelectionClear
  \/ \E id \in LiveMarks(term) : RemoveMarker(id)
  \/ \E id \in LivePoints(term) : UntrackPoint(id)
  \/ \E row \in 0..MaxRows : Goto(row)
  \/ \E top, bottom \in 0..MaxRows : SetScrollRegion(top, bottom)
  \/ Linefeed \/ ReverseIndex
  \/ \E n \in 1..2, up \in BOOLEAN :
       ScrollLines(n, up) \/ InsertOrDeleteLines(n, up)
  \/ \E mode \in 0..3 : EraseDisplay(mode)
  \/ \E top \in 0..MaxRows : Clear(top)
  \/ SwitchToAlt \/ SwitchToPrimary
  \/ \E rows \in 1..MaxRows : Resize(rows)
  \/ FullReset

Spec == Init /\ [][Next]_vars

(* What a call does depends neither on what was announced before it, nor on    *)
(* the two counters, which only date the index, nor on which ids were issued,  *)
(* beyond their order: an instance explores states that differ in nothing else *)
(* once                                                                        *)
Rank(id, ids) == Cardinality({x \in ids : x < id})
Undated ==
  LET marks == LiveMarks(term)
      points == LivePoints(term)
      Tag(tag) == CASE tag[1] = "mark" -> Mark(Rank(tag[2], marks))
                    [] tag[1] = "point" -> Point(Rank(tag[2], points))
                    [] OTHER -> tag
      Ranked(rows) == [i \in DOMAIN rows |-> {Tag(tag) : tag \in rows[i]}]
  IN [term EXCEPT
        !.out = <<>>, !.evicted = 0, !.epoch = 0,
        !.nextMark = 0, !.nextPoint = 0,
        !.hist = Ranked(@), !.grid = Ranked(@), !.other = Ranked(@),
        !.marks = [w \in DOMAIN @ |->
                     [i \in DOMAIN @[w] |->
                        [@[w][i] EXCEPT !.id = Rank(@, marks)]]],
        !.points = [w \in DOMAIN @ |->
                      {[p EXCEPT !.id = Rank(@, points)] : p \in @[w]}],
        !.stranded = {Rank(id, marks) : id \in @ \cap marks}]

(* ---- what the calls keep -------------------------------------------------- *)
TypeOK ==
  /\ term.hist \in Seq(SUBSET (({"mark", "point"} \X Nat) \cup
                                ({"end"} \X Ends)))
  /\ Len(term.hist) <= Limit
  /\ Rows(term) \in 1..MaxRows /\ Len(term.other) = Rows(term)
  /\ term.row < Rows(term) /\ term.saved < Rows(term)
  /\ term.top <= term.bottom /\ term.bottom < Rows(term)
  /\ \A which \in DOMAIN term.marks :
       /\ Len(term.marks[which]) <= MaxMarkers
       /\ MarkIds(term.marks[which]) \subseteq 0..(term.nextMark - 1)
  /\ Cardinality(term.sel) <= 1

Everywhere(t) == t.hist \o t.grid \o t.other

(* A marker is on the line its content is on, and is live exactly while a row  *)
(* carries that content: no verb moves, drops or blanks a row without the      *)
(* fixup that moves or disposes the marks on it, on whichever screen they are  *)
(* (add_marker: it "tracks it through scroll/eviction/reflow").  The marks a   *)
(* resize strands are MarkersDieWithTheirLine's.                               *)
MarksFollow ==
  /\ \A which \in DOMAIN term.marks : \A i \in DOMAIN term.marks[which] :
       LET m == term.marks[which][i] IN
       \/ m.id \in term.stranded
       \/ Owner(Buffer(term, which), Mark(m.id)) = {m.line}
  /\ \A id \in 0..(term.nextMark - 1) :
       Owner(Everywhere(term), Mark(id)) # {} =>
         id \in LiveMarks(term)

(* A tracked point is on the line its content is on and is released exactly    *)
(* when that line leaves the buffer (track_point's contract), an erase in      *)
(* place, which keeps the line, excepted.                                      *)
PointsFollow ==
  /\ \A which \in DOMAIN term.points : \A p \in term.points[which] :
       Owner(Buffer(term, which), Point(p.id)) = {p.line}
  /\ \A id \in 0..(term.nextPoint - 1) :
       Owner(Everywhere(term), Point(id)) # {} => id \in LivePoints(term)

(* The selection's ends stay on the rows they were put on, a clamped end on    *)
(* the row it was clamped to; and the fixups drop the selection only when the  *)
(* rows of both its ends are gone ("clears only on a true overtake").          *)
EndpointsFollow ==
  /\ \A s \in term.sel : \A e \in Ends :
       Owner(Buffer(term, Active(term)), End(e)) = {s[e]}
  /\ term.sel = {} =>
       \A e \in Ends : Owner(Everywhere(term), End(e)) = {}

(* Everything that holds a line of the buffer holds it through every verb.     *)
HoldersFollow == TypeOK /\ MarksFollow /\ PointsFollow /\ EndpointsFollow

(* Engine::add_marker (lib.rs:724): MarkerDisposed is "fired when its line     *)
(* leaves the buffer", so no live marker is without a line of its own.         *)
MarkersDieWithTheirLine ==
  \A which \in DOMAIN term.marks : \A i \in DOMAIN term.marks[which] :
    Owner(Buffer(term, which), Mark(term.marks[which][i].id)) # {}

(* ---- the feed a marker index lives on ------------------------------------- *)
Index(ms) ==
  [id \in MarkIds(ms) |-> ms[CHOOSE i \in DOMAIN ms : ms[i].id = id].line]
ActiveIndex(t) == Index(t.marks[Active(t)])

Feed == INSTANCE MarkerFeed WITH
  Ids <- 0..MaxCount,
  Lines <- 0..(Limit + MaxRows),
  Totals <- 0..MaxCount,
  Epochs <- 0..MaxCount,
  index <- ActiveIndex(term),
  live <- LiveMarks(term),
  born <- term.nextMark,
  evicted <- term.evicted,
  epoch <- term.epoch,
  emitted <- term.out

(* Every call is one the index's holder can follow: an index pulled before it  *)
(* and rebased by the evicted_total delta, with the announced births and       *)
(* deaths applied, is the index after it, unless the epoch says otherwise      *)
(* (ADR-0029; marker.md "three things keep it valid").                         *)
KeepsTheFeed == Feed!FeedSpec
=============================================================================
