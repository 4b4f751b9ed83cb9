------------------------------ MODULE MCBuffers ------------------------------
(***************************************************************************)
(* What a terminal edits, reads, writes and encodes, and what a user points*)
(* at and hears, for TLC: a behaviour is one of RowEdit, Wire, PackedCell, *)
(* Input, StartupQuery, Pointer and Announcer.  They share no state: the   *)
(* other parts rest.  Properties that are not below are of RowEdit,        *)
(* PackedCell and Pointer themselves.                                      *)
(***************************************************************************)
EXTENDS RowEdit, PackedCell, Pointer, Sequences, TLC

VARIABLES part,
          sent, wire, intact, got,
          report,
          output, unread, due, reply, held, fed, answers, open,
          screen, scrolled, full, alt, active, announcer, said, ought, typed, acts
carried == <<sent, wire, intact, got>>
startup == <<output, unread, due, reply, held, fed, answers, open>>
heard == <<screen, scrolled, full, alt, active, announcer, said, ought, typed, acts>>
vars == <<part, rowVars, carried, cellVars, report, startup, pointerVars, heard>>

-----------------------------------------------------------------------------
\* Sessions with and without clustering; reverse wrap is on, insert mode is switched.
Sessions == [autowrap : {TRUE}, insert : {FALSE}, cluster : BOOLEAN, reverse : {TRUE}]

(* Frames: one with everything in it, one with more spans than a small byte*)
(* holds, one that is wide, one with more markers than a small byte holds. *)
HeadOf(cols, rows) ==
  [cols |-> cols, rows |-> rows, cursor_row |-> 1, cursor_col |-> 0, cursor_visible |-> TRUE, cursor_shape |-> 4,
   cursor_blink |-> FALSE, display_offset |-> 7, scrollback_len |-> 600, evicted_total |-> 300000,
   marker_epoch |-> 30, marker_count |-> 1, mouse_events |-> 2, alt_screen |-> TRUE, modified_keys |-> 11]
GlyphOf(c, bits) == [c |-> c, fg |-> <<1, 3>>, bg |-> <<2, 60>>, flags |-> 13, bits |-> bits]
SpanOf(line, left, cells) == [line |-> line, left |-> left, right |-> left + Len(cells) - 1, cells |-> cells,
                              combining |-> <<>>, links |-> <<>>, ucolors |-> <<>>]
FrameOf(head, spans) == [head |-> head, kind |-> 1, scroll |-> <<>>, spans |-> spans, links |-> <<>>, selection |-> <<>>,
                         matches |-> <<>>, markers |-> <<>>, active |-> <<>>]
MarkOf(id, row, kind, exit) == [id |-> id, row |-> row, kind |-> kind, exit |-> exit]
Rich ==
  [FrameOf(HeadOf(4, 2),
     << [SpanOf(0, 1, <<GlyphOf(9, {"combining"}), GlyphOf(30, {"links", "ucolors"}), GlyphOf(2, {})>>)
           EXCEPT !.combining = 0 :> <<5, 99>>, !.links = 1 :> 1 @@ 28 :> 1, !.ucolors = 1 :> <<2, 7>>],
        [SpanOf(1, 0, <<GlyphOf(1, {"combining"})>>) EXCEPT !.combining = 0 :> <<>>] >>)
   EXCEPT !.scroll = <<0, 1, -2>>, !.links = << <<1, 2, 3>> >>, !.selection = << <<0, 1, 3>> >>,
          !.active = << <<1, 1, 1>>, <<0, 0, 0>> >>,
          !.markers = <<MarkOf(26, 1, "Plain", <<>>), MarkOf(3, 0, "CommandFinished", <<-1>>),
                        MarkOf(4, 0, "CommandFinished", <<>>)>>]
Tall == [FrameOf(HeadOf(2, 24), [i \in 1..24 |-> SpanOf(i - 1, 0, <<GlyphOf(1, {})>>)])
           EXCEPT !.matches = [i \in 1..26 |-> <<i % 24, 0, i % 2>>], !.kind = 0]
Broad == FrameOf(HeadOf(24, 1), << [SpanOf(0, 0, [i \in 1..24 |-> GlyphOf(2, {"ucolors"})])
                                    EXCEPT !.ucolors = [i \in 0..23 |-> <<1, 1>>]] >>)
Marked == [FrameOf(HeadOf(2, 1), <<>>) EXCEPT !.scroll = <<0, 0, 12>>,
                                            !.markers = [i \in 1..24 |-> MarkOf(i, 0, "PromptStart", <<>>)]]
W == INSTANCE Wire WITH Byte <- 5, Scalars <- 100, MinColumns <- 2, Frames <- {Rich, Tall, Broad, Marked}

(* Each flag alone, some together, all and none, one past the last.        *)
CellChars == {" ", "x"}
CellColors == {<<0, 0>>, <<1, 7>>, <<2, 9>>}
CellFlags == {{b} : b \in 0..10} \cup {{3, 12}, {3, 11, 12}, {13, 3}, {13, 11}, {13, 12, 11}, 0..10, {}, {0, 5, 13}}

(* Every key of a kind with every combination of modifiers that some form  *)
(* treats on its own, a digit and the keypad's key for it; the mouse at the *)
(* first cell and at the last a byte reaches, and past it; every paste of   *)
(* four characters.                                                         *)
Char(c) == [name |-> "char", c |-> c]
Named(name) == [name |-> name, c |-> 0]
Pad(c) == [name |-> "pad", c |-> c]
EveryModifier == {"shift", "alt", "ctrl", "super", "hyper", "meta", "caps", "num"}
Event(key, mods, action, shifted, text) ==
  [key |-> key, mods |-> mods, action |-> action, shifted |-> shifted, base |-> 0, text |-> text]
MouseAt(button, action, at, mods) == [button |-> button, action |-> action, col |-> at[1], row |-> at[2],
                                      px |-> at[1] * 8 + 3, py |-> at[2] * 16 + 5, mods |-> mods]
I == INSTANCE Input WITH
  KeyEvents <-
    {Event(key, mods, "press", 0, 0) :
       key \in {Char(c) : c \in {97, 65, 105, 32, 91, 51}} \cup {[name |-> "f", c |-> n] : n \in {1, 3, 5}}
               \cup {Named(name) : name \in {"enter", "tab", "escape", "backspace", "up", "delete"}},
       mods \in {{}, {"shift"}, {"alt"}, {"ctrl"}, {"shift", "ctrl"}, {"super"}, {"shift", "super"}, {"caps"}, {"alt", "ctrl"},
                 EveryModifier}}
    \cup {Event(Char(97), mods, action, 65, 97) : mods \in {{}, {"shift"}}, action \in {"press", "repeat", "release"}}
    \cup {Event(Named(name), {}, action, 0, 0) : name \in {"enter", "up"}, action \in {"repeat", "release"}}
    \cup {Event(Pad(c), mods, action, 0, 0) :
            c \in {51, 13, 61}, mods \in {{}, {"shift"}, {"alt", "ctrl"}, {"super"}}, action \in {"press", "release"}},
  KeyModes <- {[cursor |-> cursor, keypad |-> keypad, kitty |-> kitty, other2 |-> other2] :
                 cursor \in BOOLEAN, keypad \in BOOLEAN, kitty \in {0, 1, 3, 9, 31}, other2 \in BOOLEAN},
  MouseEvents <-
    {MouseAt(button, action, at, mods) :
       button \in {"left", "middle", "right", "wheelup", "wheelright", "back", "b11", "none"},
       action \in {"press", "release"}, at \in {<<0, 0>>, <<221, 0>>}, mods \in {{}, {"shift", "ctrl"}, {"alt"}}}
    \cup {MouseAt(button, "motion", at, mods) :
            button \in {"left", "b11", "none"}, at \in {<<0, 0>>, <<221, 0>>, <<222, 3>>, <<223, 3>>},
            mods \in {{}, {"shift", "alt", "ctrl"}}},
  Pastes <- UNION {[1..n -> {13, 10, 27, 120}] : n \in 0..4}

\* The query at once, after settings, after something else, cut off by the end, and twice.
Ask == <<"esc", "[", "6", "n">>
Setting == <<"esc", "[", "?", "1", "h">>
Longest == <<"esc", "[", "?", "1", ";", "6", "l">>
TooLong == <<"esc", "[", "?", "1", ";", "6", ";", "1", "h">>
S == INSTANCE StartupQuery WITH
  Outputs <- {Ask \o <<"x">>, Setting \o Longest \o Ask \o Ask, <<"x">> \o Ask, TooLong \o Ask,
              Setting \o <<"esc", "[", "1", "n">> \o Ask, <<"esc", "[", "?", "6", "n">> \o Ask,
              Setting \o <<"esc", "[", "6">>, Longest \o <<"esc", "x">>},
  Cursors <- {<<0, 0>>, <<5, 79>>}, PtySizes <- {<<3, 80>>, <<0, 0>>}, MaxModeSetting <- 7

\* Applications that ask for no mouse event, for presses only, or for releases too.
Asked == {{}, {"down"}, {"down", "up"}}

(* Three rows, a pause and a cap of two, and a flood of more than two lines. *)
A == INSTANCE Announcer WITH ctl <- announcer,
  Letters <- {"a", "b"}, Rows <- 3, Debounce <- 2, MaxWait <- 2, MaxRowsToRead <- 2, MaxActs <- 6

-----------------------------------------------------------------------------
RowsRest == t = NewTerminal(CHOOSE m \in Modes : TRUE) /\ ops = MaxOps
WireRests == sent = 0 /\ wire = 0 /\ intact = 0 /\ got = 0
CellRests == /\ content = [cp |-> Space, bits |-> {}] /\ fg = PackColor(<<0, 0>>, {}) /\ bg = PackColor(<<0, 0>>, {})
             /\ attrs = Plain /\ steps = MaxSteps
InputRests == report = 0
StartupRests == /\ output = 0 /\ unread = 0 /\ due = 0 /\ reply = 0 /\ held = 0 /\ fed = 0
                /\ answers = 0 /\ open = 0
PointerRests == PointerInit /\ mask = {}
AnnouncerRests == /\ screen = 0 /\ scrolled = 0 /\ full = 0 /\ alt = 0 /\ active = 0 /\ announcer = 0
                  /\ said = 0 /\ ought = 0 /\ typed = 0 /\ acts = 0

Init ==
  \/ /\ part = "rows" /\ RowInit
     /\ WireRests /\ CellRests /\ InputRests
     /\ StartupRests /\ PointerRests /\ AnnouncerRests
  \/ /\ part = "wire" /\ W!WireInit
     /\ RowsRest /\ CellRests /\ InputRests
     /\ StartupRests /\ PointerRests /\ AnnouncerRests
  \/ /\ part = "cell" /\ CellInit
     /\ RowsRest /\ WireRests /\ InputRests
     /\ StartupRests /\ PointerRests /\ AnnouncerRests
  \/ /\ part = "input" /\ I!InputInit
     /\ RowsRest /\ WireRests /\ CellRests
     /\ StartupRests /\ PointerRests /\ AnnouncerRests
  \/ /\ part = "startup" /\ S!QueryInit
     /\ RowsRest /\ WireRests /\ CellRests
     /\ InputRests /\ PointerRests /\ AnnouncerRests
  \/ /\ part = "pointer" /\ PointerInit
     /\ RowsRest /\ WireRests /\ CellRests
     /\ InputRests /\ StartupRests /\ AnnouncerRests
  \/ /\ part = "announcer" /\ A!AnnouncerInit
     /\ RowsRest /\ WireRests /\ CellRests
     /\ InputRests /\ StartupRests /\ PointerRests
Next ==
  \/ part = "rows" /\ RowNext /\ UNCHANGED <<part, carried, cellVars, report, startup, pointerVars, heard>>
  \/ part = "wire" /\ W!WireNext /\ UNCHANGED <<part, rowVars, cellVars, report, startup, pointerVars, heard>>
  \/ part = "cell" /\ CellNext /\ UNCHANGED <<part, rowVars, carried, report, startup, pointerVars, heard>>
  \/ part = "input" /\ I!InputNext /\ UNCHANGED <<part, rowVars, carried, cellVars, startup, pointerVars, heard>>
  \/ part = "startup" /\ S!QueryNext /\ UNCHANGED <<part, rowVars, carried, cellVars, report, pointerVars, heard>>
  \/ part = "pointer" /\ PointerNext /\ UNCHANGED <<part, rowVars, carried, cellVars, report, startup, heard>>
  \/ part = "announcer" /\ A!AnnouncerNext /\ UNCHANGED <<part, rowVars, carried, cellVars, report, startup, pointerVars>>
Spec == Init /\ [][Next]_vars

-----------------------------------------------------------------------------
\* Wire: a frame arrives as it was sent, or is rejected, and flattens as it is.
FramesArrive == part = "wire" => W!FramesArrive
\* Input: what was pressed, clicked and pasted can be read back from the bytes.
InputIsTold == part = "input" => I!InputIsTold
\* StartupQuery: the first query is withheld and answered however the output is split.
SplitsAreUnseen == part = "startup" => S!SplitsAreUnseen
\* Announcer: a listening reader is told all new output, once, in order and in time.
ReaderIsTold == part = "announcer" => A!ReaderIsTold
=============================================================================
