------------------------------ MODULE Pointer ------------------------------
(***************************************************************************)
(* A press, its drag and its release: PointerRouter (pointer.ts) decides    *)
(* who gets a gesture, the application or the widget, and                   *)
(* SelectionController (selection.ts) makes a local one the engine's         *)
(* selection.  Meanwhile the application turns its mouse mode on and off,    *)
(* the view scrolls, the pane is hidden, a release is lost, keys are typed.  *)
(*                                                                         *)
(* A column is two halves, its sides.  The pointer is a row, -1 above the   *)
(* pane and PaneRows below it, and a half, Halves past the right edge.      *)
(***************************************************************************)
EXTENDS Integers, Sequences, FiniteSets

CONSTANTS PaneRows,     \* the grid's rows
          Halves,       \* and twice its columns
          Bottom,       \* the line the viewport's top has when it follows the output
          Masks,        \* the sets of events an application asks for
          MaxActs       \* bound on what happens

\* A pane has a cell, and the viewport lies within the buffer.
ASSUME PointerAssumption == PaneRows \in Nat \ {0} /\ Halves \in Nat \ {0} /\ Bottom \in Nat /\ MaxActs \in Nat

VARIABLES buttons, pointer,          \* the buttons held, and where the pointer is
          measured, mask, view,      \* box measurable, mouseWantedEvents, viewport
          gesture,                   \* PointerRouter: "none", "app" or "local"
          selection,                 \* SelectionController's fields
          engine,                    \* the engine's selection, in absolute lines
          owed,                      \* (history) presses reported whose release is to be
          stale,                     \* (history) since the anchor the view moved, or the engine dropped the selection
          dropped,                   \* (history) the engine dropped the selection itself
          out,                       \* (history) what the last step called
          gestures
pointerVars == <<buttons, pointer, measured, mask, view, gesture, selection, engine, owed, stale, dropped, out, gestures>>

NoCell == <<>>   \* undefined, null
Silent == [changed |-> FALSE, began |-> FALSE, scrolled |-> 0, cursor |-> NoCell]
Inside(p) == p[1] \in 0..(PaneRows - 1) /\ p[2] < Halves
ClampTo(n, max) == IF n < 0 THEN 0 ELSE IF n > max THEN max ELSE n
CellAndSide(p) == <<ClampTo(p[1], PaneRows - 1), ClampTo(p[2], Halves - 1)>>
DragScrollSpeed(row) == IF row < 0 THEN -1 ELSE IF row >= PaneRows THEN 1 ELSE 0   \* its sign
Abs(v, cell) == <<v + cell[1], cell[2]>>                                        \* viewport_to_abs

PointerInit ==
  /\ buttons = {} /\ pointer = <<0, 0>> /\ measured = TRUE /\ mask \in Masks /\ view = Bottom
  /\ gesture = "none"
  /\ selection = [dragging |-> FALSE, hasSelection |-> FALSE, amount |-> 0, last |-> 0, dragged |-> FALSE,
                  anchor |-> NoCell, reported |-> NoCell]
  /\ engine = NoCell /\ owed = {} /\ stale = FALSE /\ dropped = FALSE /\ out = Silent /\ gestures = 0

-----------------------------------------------------------------------------
(* SelectionController, over what it and the engine hold: s.               *)
Now == [ctl |-> selection, engine |-> engine, out |-> Silent]
PortBegin(s, v, cell, ty) == [s EXCEPT !.engine = <<ty, Abs(v, cell), Abs(v, cell)>>]
PortExtend(s, v, cell) == IF s.engine = NoCell THEN s ELSE [s EXCEPT !.engine = <<@[1], @[2], Abs(v, cell)>>]
PortClear(s) == [s EXCEPT !.engine = NoCell]

ReportChange(s, focus) ==
  LET key == IF focus # NoCell /\ s.ctl.anchor # NoCell THEN <<s.ctl.anchor, focus>> ELSE NoCell
  IN  IF key # NoCell /\ key = s.ctl.reported THEN s
      ELSE [s EXCEPT !.ctl.reported = key, !.out.changed = TRUE]

\* Mutant of ClearSelection: typing drops the selection of a live drag, too.
ClearMidDrag(s) ==
  IF ~s.ctl.hasSelection THEN s
  ELSE ReportChange(PortClear([s EXCEPT !.ctl.hasSelection = FALSE, !.ctl.anchor = NoCell]), NoCell)
ClearSelection(s) ==
  IF ~s.ctl.hasSelection \/ s.ctl.dragging THEN s
  ELSE ReportChange(PortClear([s EXCEPT !.ctl.hasSelection = FALSE, !.ctl.anchor = NoCell]), NoCell)
SelectAll(s) ==
  ReportChange([s EXCEPT !.engine = <<"char", <<0, 0>>, <<Bottom + PaneRows - 1, Halves - 1>> >>,
                         !.ctl.hasSelection = TRUE, !.ctl.anchor = NoCell], NoCell)

ModeForClick(detail, alt) ==
  IF detail = 1 /\ alt THEN "block" ELSE IF detail >= 3 THEN "line" ELSE IF detail = 2 THEN "word" ELSE "char"
MouseDown(s, ev, forced) ==
  LET cell == CellAndSide(pointer)
      ty == ModeForClick(ev.detail, ev.alt)
      begun == PortBegin([s EXCEPT !.ctl.hasSelection = TRUE, !.ctl.anchor = <<ty, cell>>, !.out.began = TRUE],
                         view, cell, ty)
      made == IF ev.shift /\ s.ctl.hasSelection /\ ~forced THEN PortExtend(s, view, cell) ELSE begun
  IN  IF ev.button # "left" \/ ~measured THEN s
      ELSE ReportChange([made EXCEPT !.ctl.dragging = TRUE, !.ctl.dragged = FALSE], cell)

MouseMove(s, p) ==
  LET cell == CellAndSide(p)
      speed == DragScrollSpeed(p[1])
      moved == [s EXCEPT !.ctl.dragged = TRUE, !.ctl.last = cell[2], !.ctl.amount = speed]
  IN  IF ~s.ctl.dragging THEN s
      ELSE IF ~measured THEN [s EXCEPT !.ctl.dragged = TRUE, !.ctl.amount = 0]
      ELSE IF speed = 0 THEN ReportChange(PortExtend(moved, view, cell), cell) ELSE moved

\* onScroll moves the view before the focus is put on its edge.
Scrolled(v, n) == ClampTo(v + n, Bottom)
TickOnce(s) ==
  LET edge == <<IF s.ctl.amount > 0 THEN PaneRows - 1 ELSE 0, s.ctl.last>>
  IN  IF ~s.ctl.dragging \/ s.ctl.amount = 0 THEN s
      ELSE IF ~measured THEN [s EXCEPT !.ctl.amount = 0]
      ELSE ReportChange(PortExtend([s EXCEPT !.out.scrolled = s.ctl.amount],
                                   Scrolled(view, s.ctl.amount), edge), NoCell)

\* A quick Alt-click that did not drag, at the live prompt, is a cursor move.
MouseUp(s, alt, quick) ==
  LET done == [s EXCEPT !.ctl.dragging = FALSE, !.ctl.amount = 0]
      swapped == PortClear([done EXCEPT !.ctl.hasSelection = FALSE, !.ctl.anchor = NoCell])
  IN  IF ~s.ctl.dragging THEN s
      ELSE IF ~(alt /\ ~s.ctl.dragged /\ quick /\ view = Bottom) \/ ~measured THEN done
      ELSE [ReportChange(swapped, NoCell) EXCEPT !.out.cursor = CellAndSide(pointer)]

-----------------------------------------------------------------------------
(* A step's history: what a report makes known, and what the engine drops.  *)
Take(s) == /\ selection' = s.ctl /\ engine' = s.engine /\ out' = s.out
           /\ view' = Scrolled(view, s.out.scrolled)
           /\ stale' = ((stale \/ view' # view) /\ ~(s.out.changed /\ (s.out.began \/ s.ctl.anchor = NoCell)))
           /\ dropped' = (dropped /\ s.engine = NoCell /\ s.ctl.hasSelection)
Act == gestures < MaxActs /\ gestures' = gestures + 1
Page == UNCHANGED <<measured, mask>>

PressGoesToApp(ev) == "down" \in mask /\ ~ev.shift
\* A reported gesture with no other button held is one whose release never arrived.
Continues(ev) == IF gesture = "app" /\ buttons = {} THEN "none" ELSE gesture
Down(ev) ==
  LET before == Continues(ev)
      goes == before = "app" \/ (before = "none" /\ PressGoesToApp(ev))
  IN  \/ /\ goes
         /\ gesture' = IF measured THEN "app" ELSE before
         /\ owed' = IF measured /\ "up" \in mask THEN owed \cup {ev.button} ELSE owed
         /\ Take(Now)
      \/ /\ ~goes
         /\ gesture' = IF ev.button = "left" /\ before = "none" THEN "local" ELSE before
         /\ Take(MouseDown(Now, ev, "down" \in mask)) /\ UNCHANGED owed

Up(b, alt, quick) ==
  /\ gesture' = IF gesture = "app" /\ buttons \ {b} # {} THEN "app" ELSE "none"
  /\ owed' = owed \ {b}
  /\ Take(IF gesture = "local" THEN MouseUp(Now, alt, quick) ELSE Now)

Buttons == {"left", "middle", "right"}
PressButton ==
  /\ Act /\ Inside(pointer) /\ Page /\ UNCHANGED pointer
  /\ \E b \in Buttons \ buttons, shift, alt \in BOOLEAN, detail \in 1..3 :
       /\ b # "left" => ~alt /\ detail = 1
       /\ buttons' = buttons \cup {b}
       /\ Down([button |-> b, shift |-> shift, alt |-> alt, detail |-> detail])
ReleaseButton ==
  /\ Act /\ Page /\ UNCHANGED pointer
  /\ \E b \in buttons, alt, quick \in BOOLEAN : /\ buttons' = buttons \ {b}
                                             /\ gesture # "none" /\ Up(b, alt, quick)
\* Hover reports a bare motion and keeps nothing; a gesture's motion goes where the gesture went.
Move ==
  /\ Act /\ Page /\ UNCHANGED <<buttons, owed>>
  /\ \E p \in (-1..PaneRows) \X (0..Halves) :
       /\ p # pointer /\ pointer' = p
       /\ gesture' = IF gesture = "app" /\ buttons = {} THEN "none" ELSE gesture
       /\ Take(IF gesture = "local" THEN MouseMove(Now, p) ELSE Now)
Tick == /\ Act /\ gesture = "local" /\ Take(TickOnce(Now)) /\ Page /\ UNCHANGED <<buttons, pointer, gesture, owed>>
Type == /\ Act /\ Take(ClearSelection(Now)) /\ Page /\ UNCHANGED <<buttons, pointer, gesture, owed>>
ChooseAll == /\ Act /\ Take(SelectAll(Now)) /\ Page /\ UNCHANGED <<buttons, pointer, gesture, owed>>

\* A button let go where no window hears of it, or while nothing is followed.
ReleaseUnheard ==
  /\ Act /\ \E b \in buttons : buttons' = buttons \ {b} /\ owed' = owed \ {b}
  /\ out' = Silent /\ UNCHANGED <<pointer, measured, mask, view, gesture, selection, engine, stale, dropped>>
Still == out' = Silent /\ UNCHANGED <<buttons, pointer, gesture, selection>>
HideOrShow == Act /\ measured' = ~measured /\ Still /\ UNCHANGED <<mask, view, engine, owed, stale, dropped>>
\* Releases that an application no longer asks for, or a hidden pane swallows, are owed to nobody.
SetMask == /\ Act /\ mask' \in Masks \ {mask} /\ owed' = IF "up" \in mask' THEN owed ELSE {}
           /\ Still /\ UNCHANGED <<measured, view, engine, stale, dropped>>
ScrollView == /\ Act /\ view' \in 0..Bottom \ {view} /\ stale' = TRUE
              /\ Still /\ UNCHANGED <<measured, mask, engine, owed, dropped>>
EngineDrops == /\ Act /\ engine # NoCell /\ engine' = NoCell /\ stale' = TRUE /\ dropped' = TRUE
               /\ Still /\ UNCHANGED <<measured, mask, view, owed>>

PointerNext == \/ PressButton \/ ReleaseButton \/ Move \/ Tick \/ Type \/ ChooseAll
               \/ ReleaseUnheard \/ HideOrShow \/ SetMask \/ ScrollView \/ EngineDrops
PointerSpec == PointerInit /\ [][PointerNext]_pointerVars

-----------------------------------------------------------------------------
\* A drag is always on its way to a release that ends it, and has a selection to
\* extend; what the controller believes is selected is, unless the engine dropped
\* it, and nothing is selected that typing would not drop.
GesturesAreWhole ==
  /\ selection.dragging => gesture = "local" /\ selection.hasSelection
  /\ selection.amount # 0 => selection.dragging
  /\ engine # NoCell => selection.hasSelection
  /\ selection.hasSelection => engine # NoCell \/ dropped

\* Once a gesture has ended the application waits for no release.
ReleasesAreTold == gesture # "app" => owed = {}

\* A change of the selection is announced, as long as the view did not move under
\* it; and the view is scrolled only while the pane is shown, towards a pointer
\* that is outside.
StepIsFelt ==
  /\ engine' # engine /\ ~stale /\ ~stale' => out'.changed
  /\ out'.scrolled # 0 => measured /\ (out'.scrolled < 0 <=> pointer[1] < 0) /\ pointer[1] \notin 0..(PaneRows - 1)
DragsAreFollowed == [][gestures' # gestures => StepIsFelt]_pointerVars

\* PointerRouter and SelectionController (pointer.ts, selection.ts): a gesture belongs to one
\* side until its release, and its selection is announced and followed.
PointerIsFollowed == [](GesturesAreWhole /\ ReleasesAreTold) /\ DragsAreFollowed
=============================================================================
