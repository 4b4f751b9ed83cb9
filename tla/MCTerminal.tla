----------------------------- MODULE MCTerminal -----------------------------
(***************************************************************************)
(* What a terminal keeps, for TLC: a behaviour is one of Modes, Reflow,     *)
(* SettledLines and BufferText, each a view of the terminal that leaves to   *)
(* the other three what it does not need.  They share no state: the other    *)
(* parts rest.  The properties of Modes are its own.                         *)
(***************************************************************************)
EXTENDS Modes, TLC

VARIABLES part,
          flowT, flowActs, resizes,
          settledT, watch, told, settledOps,
          buf, floor, offset, sel, carries
flow == <<flowT, flowActs, resizes>>
settled == <<settledT, watch, told, settledOps>>
read == <<buf, floor, offset, sel, carries>>
vars == <<part, modeVars, flow, settled, read>>

\* A screen that is wide and one that is high; margins of one row fit the high one.
ModeScreens == {<<2, 3>>, <<3, 2>>}
\* Four steps and a resize, or three and two, between an even and an odd width.
F == INSTANCE Reflow WITH Widths <- {2, 3}, Heights <- {2}, Redraws <- {"full", "off"}, MaxActs <- 5, MaxResizes <- 2,
                          t <- flowT, acts <- flowActs
\* One line of history: every line that scrolls off evicts another.
S == INSTANCE SettledLines WITH Letters <- {1}, Widths <- {1, 2}, Rows <- 3, Limit <- 1, MaxOps <- 5,
                                t <- settledT, ops <- settledOps

(* Buffers of a row of history and two of the screen: pairs, artefacts, a   *)
(* mark, rows that wrap into the screen, blank rows and a lead at the edge.   *)
Row(cells, wrapped) == [cells |-> cells, wrapped |-> wrapped]
B == INSTANCE BufferText WITH
  Buffers <- { <<Row(<<"a", "b", "<">>, TRUE), Row(<<"W", "_", " ">>, FALSE), Row(<<" ", "a", " ">>, FALSE)>>,
               <<Row(<<"a", " ", " ">>, FALSE), Row(<<"Z", "_", "a">>, TRUE), Row(<<"e'", "a", "b">>, FALSE)>>,
               <<Row(<<"W", "_", "a">>, TRUE), Row(<<"a", "a", "a">>, TRUE), Row(<<",", " ", " ">>, FALSE)>>,
               <<Row(<<" ", " ", " ">>, FALSE), Row(<<"a", "W", "_">>, TRUE), Row(<<"a", "b", "W">>, FALSE)>> },
  Chars <- (" " :> <<" ">>) @@ ("a" :> <<"a">>) @@ ("b" :> <<"b">>) @@ ("e'" :> <<"e", "'">>) @@ ("W" :> <<"w">>)
             @@ ("Z" :> <<"z">>) @@ ("," :> <<",">>),
  Wide <- {"W", "Z"}, Separators <- {" ", ",", "z"}, WordChars <- {"a", "b", "e", "'", "w"}, Rows <- 2,
  Needles <- {<<"a">>, <<"'">>, <<"a", "b">>, <<"a", "a">>, <<"b", "w">>, <<" ">>, <<"e", "'">>}

ModesRest == t = Fresh(2, 3) /\ entry = NoEntry /\ ops = MaxOps
FlowRests == flowT = 0 /\ flowActs = 5 /\ resizes = 2
SettledRests == settledT = 0 /\ watch = 0 /\ told = {} /\ settledOps = 5
TextRests == buf = 0 /\ floor = 0 /\ offset = 0 /\ sel = 0 /\ carries = 0

Init ==
  \/ part = "modes" /\ ModeInit /\ FlowRests /\ SettledRests /\ TextRests
  \/ part = "flow" /\ F!ReflowInit /\ ModesRest /\ SettledRests /\ TextRests
  \/ part = "settled" /\ S!SettledInit /\ ModesRest /\ FlowRests /\ TextRests
  \/ part = "text" /\ B!TextInit /\ ModesRest /\ FlowRests /\ SettledRests
Next ==
  \/ part = "modes" /\ ModeNext /\ UNCHANGED <<part, flow, settled, read>>
  \/ part = "flow" /\ F!ReflowNext /\ UNCHANGED <<part, modeVars, settled, read>>
  \/ part = "settled" /\ S!SettledNext /\ UNCHANGED <<part, modeVars, flow, read>>
  \/ part = "text" /\ B!TextNext /\ UNCHANGED <<part, modeVars, flow, settled>>
Spec == Init /\ [][Next]_vars

-----------------------------------------------------------------------------
\* Reflow: a resize loses, splits and invents nothing, and marks, saved cursor and
\* cursor stay after the glyph they came after.
ResizeKeepsAll == F!TextSurvives /\ F!PointsKeepTheirPlace
\* SettledLines: a line the application wrote is reported, or an answer for it will be taken.
EveryLineGetsItsPaint == part = "settled" => S!EveryLineGetsItsPaint
\* SettledLines: a paint changes the colour of the line it names, and nothing else.
PaintedAsTold == S!PaintedAsTold
\* BufferText: what is copied is what is highlighted.
CopyIsTheHighlight == part = "text" => B!CopyIsTheHighlight
\* BufferText: search, the viewport's lines and the screen reader read the same text.
SearchFindsTheText == part = "text" => B!SearchFindsTheText
=============================================================================
