------------------------------- MODULE Modes --------------------------------
(***************************************************************************)
(* The cursor, the margins, the tab stops and the two screens of a terminal *)
(* (dispatch.rs, replies.rs, term.rs): what the control functions that set  *)
(* modes, move, save and restore do to each other's state.                  *)
(*                                                                         *)
(* Pens, charsets, caret shapes and kitty flags are numbers, 0 the default. *)
(* What a screen contains is RowEdit's: here a row may or may not wrap into *)
(* the next, and a glyph is one column wide.  Modes read by the encoders    *)
(* and the embedder alone (mouse, paste, focus, keypad) are left out.  A    *)
(* resize puts the cursor in any corner of the screen and the saved ones in  *)
(* the first or the last cell (Reflow: where).                              *)
(***************************************************************************)
EXTENDS Integers, Sequences

CONSTANTS Screens,   \* the sizes, <<rows, columns>>
          Counts,    \* the counts of movements
          Places,    \* the coordinates of absolute ones, and of margins less one
          TabWidth,  \* 8 in the code
          KittyCap,  \* KITTY_STACK_CAP
          MaxOps     \* bound on the control functions of a session

ASSUME ModeAssumption ==
  /\ Screens \subseteq (Nat \ {0}) \X (Nat \ {0})
  /\ Counts \subseteq Nat /\ Places \subseteq Nat
  /\ TabWidth \in Nat \ {0} /\ KittyCap \in Nat \ {0} /\ MaxOps \in Nat

VARIABLES t,      \* the terminal
          entry,  \* ghost: what ?1049h found on the primary screen, or NoEntry
          ops     \* control functions so far
modeVars == <<t, entry, ops>>

Least(a, b) == IF a < b THEN a ELSE b
Most(a, b) == IF a > b THEN a ELSE b
NoEntry == <<>>

SavedDefault == [row |-> 0, col |-> 0, pen |-> 0, park |-> FALSE, origin |-> FALSE, charset |-> 0]
Fresh(rows, cols) ==
  [rows |-> rows, cols |-> cols, row |-> 0, col |-> 0, park |-> FALSE, pen |-> 0, caret |-> 0,
   origin |-> FALSE, autowrap |-> TRUE, reverse |-> FALSE, newline |-> FALSE, charset |-> 0,
   top |-> 0, bottom |-> rows - 1, tabs |-> {c \in 0..(cols - 1) : c % TabWidth = 0}, known |-> cols,
   onAlt |-> FALSE, slot |-> SavedDefault, slotInactive |-> SavedDefault,
   kitty |-> [flags |-> 0, stack |-> <<>>], kittyInactive |-> [flags |-> 0, stack |-> <<>>],
   caretBefore |-> NoEntry, vt52 |-> FALSE, coords |-> 0, coordRow |-> 0]

----------------------------------------------------------------------------
(* Movement (term.rs). *)
LastCol(s) == s.cols - 1
At(s, row, col) == [s EXCEPT !.row = row, !.col = col, !.park = FALSE]
AddressableRows(s) == IF s.origin THEN <<s.top, s.bottom>> ELSE <<0, s.rows - 1>>
GotoCell(s, row, col) ==
  At(s, Least(row + AddressableRows(s)[1], AddressableRows(s)[2]), Least(col, LastCol(s)))
MoveUp(s, n) == At(s, Most(s.row - n, IF s.row >= s.top THEN s.top ELSE 0), s.col)
MoveDown(s, n) == At(s, Least(s.row + n, IF s.row <= s.bottom THEN s.bottom ELSE s.rows - 1), s.col)
MoveForward(s, n) == At(s, s.row, Least(s.col + n, LastCol(s)))
CarriageReturn(s) == At(s, s.row, 0)
\* wraps says whether the row above wraps into this one.
StepBack(s, wraps) ==
  IF s.reverse /\ s.autowrap /\ s.park THEN [s EXCEPT !.park = FALSE]
  ELSE IF s.col > 0 THEN At(s, s.row, s.col - 1)
  ELSE IF s.reverse /\ s.autowrap /\ s.row > s.top /\ s.row <= s.bottom /\ wraps THEN At(s, s.row - 1, LastCol(s))
  ELSE At(s, s.row, s.col)
StepsBack(s, wraps) ==
  LET back[i \in Nat] == IF i = 0 THEN s ELSE StepBack(back[i - 1], wraps) IN back
MoveBack(s, n, wraps) ==
  IF s.reverse THEN [StepsBack(s, wraps)[n] EXCEPT !.park = FALSE] ELSE At(s, s.row, Most(s.col - n, 0))
LinefeedInner(s) ==
  LET u == IF s.newline THEN CarriageReturn(s) ELSE s
  IN  IF u.row = u.bottom THEN u ELSE [u EXCEPT !.row = Least(@ + 1, u.rows - 1)]
Linefeed(s) == [LinefeedInner(s) EXCEPT !.park = FALSE]
ReverseIndex(s) ==
  [s EXCEPT !.park = FALSE, !.row = IF s.row # s.top /\ s.row > 0 THEN @ - 1 ELSE @]
Advanced(s) == IF s.col + 1 < s.cols THEN [s EXCEPT !.col = @ + 1] ELSE [s EXCEPT !.park = TRUE]
WriteGlyph(s) ==
  Advanced(IF s.park /\ s.autowrap THEN CarriageReturn(LinefeedInner(s)) ELSE [s EXCEPT !.park = FALSE])

(* Tab stops. *)
TabStop(s) ==
  LET stops == {c \in (s.col + 1)..LastCol(s) : c \in s.tabs \/ c = LastCol(s)}
  IN  IF stops = {} THEN s ELSE At(s, s.row, CHOOSE c \in stops : \A d \in stops : c <= d)
TabStops(s) == LET tab[i \in Nat] == IF i = 0 THEN s ELSE TabStop(tab[i - 1]) IN tab
ForwardTabs(s, n) == TabStops(s)[n]
StopBefore(s, c) ==
  CHOOSE d \in 0..c : /\ d = 0 \/ (d < c /\ d \in s.tabs)
                      /\ \A e \in (d + 1)..(c - 1) : e \notin s.tabs
StopsBefore(s) == LET tab[i \in Nat] == IF i = 0 THEN s.col ELSE StopBefore(s, tab[i - 1]) IN tab
BackTab(s, n) == At(s, s.row, StopsBefore(s)[n])

(* Saving and restoring; the two screens. *)
SaveCursor(s) == [s EXCEPT !.slot = [row |-> s.row, col |-> s.col, pen |-> s.pen, park |-> s.park,
                                     origin |-> s.origin, charset |-> s.charset]]
\* Mutant of SettleRestoredWrap: a parked cursor stays parked wherever it was put.
Unsettled(s) == s
SettleRestoredWrap(s) == IF s.park /\ s.col + 1 < s.cols THEN At(s, s.row, s.col + 1) ELSE s
RestoreCursor(s) ==
  SettleRestoredWrap([s EXCEPT !.row = Least(s.slot.row, s.rows - 1), !.col = Least(s.slot.col, LastCol(s)),
                               !.pen = s.slot.pen, !.park = s.slot.park, !.origin = s.slot.origin,
                               !.charset = s.slot.charset])
\* Mutant of SwapScreens: the keyboard flags and the saved cursor are the terminal's.
SwapRowsOnly(s) == [s EXCEPT !.onAlt = ~@]
SwapScreens(s) ==
  [s EXCEPT !.onAlt = ~@, !.kitty = s.kittyInactive, !.kittyInactive = s.kitty,
            !.slot = s.slotInactive, !.slotInactive = s.slot]
SwitchToAlt(s) == IF s.onAlt THEN s ELSE SwapScreens(s)
SwitchToPrimary(s) == IF s.onAlt THEN [SwapScreens(s) EXCEPT !.caretBefore = NoEntry] ELSE s
EnterAltScreen(s) ==
  IF s.onAlt THEN SaveCursor(s) ELSE SwitchToAlt([SaveCursor(s) EXCEPT !.caretBefore = <<s.caret>>])
LeaveAltScreen(s) ==
  LET back == RestoreCursor(SwitchToPrimary([s EXCEPT !.caretBefore = NoEntry]))
  IN  IF s.caretBefore = NoEntry THEN back ELSE [back EXCEPT !.caret = s.caretBefore[1]]

SetScrollRegion(s, top, bottom) ==
  IF top >= Least(bottom, s.rows) THEN s
  ELSE GotoCell([s EXCEPT !.top = top - 1, !.bottom = Least(bottom, s.rows) - 1], 0, 0)
SoftReset(s) ==
  [s EXCEPT !.pen = 0, !.caret = 0, !.top = 0, !.bottom = s.rows - 1, !.origin = FALSE, !.autowrap = TRUE,
            !.charset = 0, !.slot = SavedDefault]
\* XTPUSH/XTPOP/XTSET of the kitty flags.
KittyPush(s, flags) ==
  [s EXCEPT !.kitty = [flags |-> flags,
                       stack |-> Append(IF Len(@.stack) >= KittyCap THEN Tail(@.stack) ELSE @.stack, @.flags)]]
KittyPop(s) ==
  [s EXCEPT !.kitty = IF @.stack = <<>> THEN [@ EXCEPT !.flags = 0]
                      ELSE [flags |-> @.stack[Len(@.stack)], stack |-> SubSeq(@.stack, 1, Len(@.stack) - 1)]]
\* device_status_report(6): what the application reads, counted from 1.
ReportedPosition(s) == <<(IF s.origin THEN Most(s.row - s.top, 0) ELSE s.row) + 1, s.col + 1>>

\* resize: reflow_pane places the live and the two saved cursors; it parks the primary screen's
\* saved one on a row that wraps.
MovedSlot(slot, rows, cols, saved, parks) ==
  [slot EXCEPT !.row = Least(saved[1], rows - 1), !.col = saved[2], !.park = @ \/ (parks /\ saved[2] = cols - 1)]
Resized(s, rows, cols, p, saved, wraps) ==
  LET placed == SettleRestoredWrap([s EXCEPT !.rows = rows, !.cols = cols, !.row = p[1], !.col = p[2]])
      same == rows = s.rows /\ cols = s.cols
  IN  [placed EXCEPT
         !.top = IF same THEN @ ELSE 0, !.bottom = IF same THEN @ ELSE rows - 1,
         !.tabs = @ \cup {c \in s.known..(cols - 1) : c % TabWidth = 0}, !.known = Most(@, cols),
         !.slot = MovedSlot(@, rows, cols, saved, ~s.onAlt /\ wraps),
         !.slotInactive = MovedSlot(@, rows, cols, saved, s.onAlt /\ wraps)]

----------------------------------------------------------------------------
ModeInit == ops = 0 /\ entry = NoEntry /\ \E size \in Screens : t = Fresh(size[1], size[2])

Becomes(s) == ops < MaxOps /\ ops' = ops + 1 /\ t' = s
Does(s) == Becomes(s) /\ UNCHANGED entry

\* print: the two bytes after ESC Y are coordinates, everything else is a glyph.
Glyph ==
  \/ t.coords = 0 /\ Does(WriteGlyph(t))
  \/ \E at \in Places :
       \/ t.coords = 2 /\ Does([t EXCEPT !.coords = 1, !.coordRow = at])
       \/ t.coords = 1 /\ Does(GotoCell([t EXCEPT !.coords = 0], t.coordRow, at))
Control ==
  \/ Does(Linefeed(t)) \/ Does(CarriageReturn(t)) \/ Does(TabStop(t))
  \/ \E wraps \in BOOLEAN : Does(StepBack(t, wraps))
  \/ \E shift \in {0, 1} : Does([t EXCEPT !.charset = shift])
Move ==
  \E n \in Counts :
    \/ Does(MoveUp(t, n)) \/ Does(MoveDown(t, n)) \/ Does(MoveForward(t, n))
    \/ Does(CarriageReturn(MoveUp(t, n))) \/ Does(CarriageReturn(MoveDown(t, n)))
    \/ \E wraps \in BOOLEAN : Does(MoveBack(t, n, wraps))
    \/ Does(At(t, Least(t.row + n, AddressableRows(t)[2]), t.col))  \* vertical_position_relative
    \/ Does(ForwardTabs(t, n)) \/ Does(BackTab(t, n))
Address ==
  \/ \E row, col \in Places : Does(GotoCell(t, row, col))
  \/ \E n \in Places : Does(At(t, t.row, Least(n, LastCol(t)))) \/ Does(At(t, Least(n, t.rows - 1), t.col))
Stops == \E tabs \in {t.tabs \cup {t.col}, t.tabs \ {t.col}, {}} : Does([t EXCEPT !.tabs = tabs])
Margins == \E top, bottom \in Places : Does(SetScrollRegion(t, top + 1, bottom + 1))
Looks == Does([t EXCEPT !.pen = 1]) \/ Does([t EXCEPT !.caret = 1])  \* sgr, set_cursor_style
Toggles ==
  \/ Does(GotoCell([t EXCEPT !.origin = TRUE], 0, 0)) \/ Does([t EXCEPT !.origin = FALSE])
  \/ \E on \in BOOLEAN : Does([t EXCEPT !.autowrap = on]) \/ Does([t EXCEPT !.reverse = on]) \/ Does([t EXCEPT !.newline = on])
Saves == Does(SaveCursor(t)) \/ Does(RestoreCursor(t))
Kitty ==
  \/ \E flags \in {0, 1} : Does(KittyPush(t, flags)) \/ Does([t EXCEPT !.kitty.flags = flags])
  \/ Does(KittyPop(t))
Escape == ~t.vt52 /\ (Does(ReverseIndex(t)) \/ Does(Linefeed(CarriageReturn(t))))
\* vt52_dispatch
Vt52 ==
  \/ ~t.vt52 /\ Does([t EXCEPT !.vt52 = TRUE])
  \/ t.vt52 /\ (Does([t EXCEPT !.vt52 = FALSE]) \/ Does([t EXCEPT !.coords = 2]) \/ Does(ReverseIndex(t)))
SoftResets == Does(SoftReset(t))
FullResets == Becomes(Fresh(t.rows, t.cols)) /\ entry' = NoEntry

EnterAlt ==
  /\ Becomes(EnterAltScreen(t))
  /\ entry' = IF t.onAlt THEN entry
              ELSE [pen |-> t.pen, charset |-> t.charset, origin |-> t.origin, kitty |-> t.kitty,
                    caret |-> t.caret, at |-> {<<t.row, t.col, t.park>>}]
LeaveAlt == Becomes(LeaveAltScreen(t)) /\ entry' = NoEntry
SwitchAlt ==  \* ?47 and ?1047
  \/ Does(SwitchToAlt(t))
  \/ Becomes(SwitchToPrimary(t)) /\ entry' = NoEntry

Resize ==
  \E size \in Screens :
    \E p \in {0, size[1] - 1} \X {0, size[2] - 1}, saved \in {<<0, 0>>, <<size[1] - 1, size[2] - 1>>}, wraps \in BOOLEAN :
      /\ Becomes(Resized(t, size[1], size[2], p, saved, wraps))
      /\ entry' = IF entry = NoEntry THEN entry ELSE [entry EXCEPT !.at = {}]

ModeNext ==
  \/ Glyph \/ Control \/ Move \/ Address \/ Stops \/ Margins \/ Looks \/ Toggles \/ Saves \/ Kitty
  \/ Escape \/ Vt52 \/ SoftResets \/ FullResets \/ EnterAlt \/ LeaveAlt \/ SwitchAlt \/ Resize
ModeSpec == ModeInit /\ [][ModeNext]_modeVars

----------------------------------------------------------------------------
OnTheScreen ==
  /\ t.row < t.rows /\ t.col < t.cols /\ (t.park => t.col = LastCol(t))
  /\ t.top <= t.bottom /\ t.bottom < t.rows /\ t.cols <= t.known
  /\ \A slot \in {t.slot, t.slotInactive} : slot.row < t.rows /\ slot.col < t.cols
\* The position a program reads back with CSI 6 n is the one CSI H takes it to.
ReportLeadsBack ==
  t.row \in AddressableRows(t)[1]..AddressableRows(t)[2] =>
    LET back == GotoCell(t, ReportedPosition(t)[1] - 1, ReportedPosition(t)[2] - 1)
    IN  back.row = t.row /\ back.col = t.col
\* set_scroll_region, restore_cursor, resize (term.rs) index rows, cells and tab stops with the
\* cursor, the saved cursors and the margins: no sequence of them takes one off the screen or
\* parks the cursor anywhere but past the last column; device_status_report agrees with goto.
CursorIsSound == OnTheScreen /\ ReportLeadsBack

\* enter_alt_screen, leave_alt_screen (term.rs): whatever a full-screen program does to the
\* modes, the cursor, the keyboard flags and the slots of its screen (another ?1049h, soft
\* resets, saves, resizes), ?1049l gives the shell back what ?1049h found; the place of the
\* cursor too, unless the screen was resized.
AltIsTransparent ==
  [][LeaveAlt /\ entry # NoEntry =>
       /\ ~t'.onAlt /\ t'.pen = entry.pen /\ t'.charset = entry.charset /\ t'.origin = entry.origin
       /\ t'.kitty = entry.kitty /\ t'.caret = entry.caret
       /\ entry.at = {} \/ <<t'.row, t'.col, t'.park>> \in entry.at]_modeVars
=============================================================================
