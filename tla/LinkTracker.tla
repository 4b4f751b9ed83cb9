----------------------------- MODULE LinkTracker -----------------------------
(***************************************************************************)
(* LinkTracker and LinkController of justerm-web (link-tracker.ts,          *)
(* links.ts): plain-text links under the pointer come from the backend, one *)
(* logical line at a time and a round trip late, while frames change the    *)
(* rows they were answered for.                                             *)
(*                                                                         *)
(* A row is what it shows and whether it wraps into the next.  The text of  *)
(* a row is one letter: "u" begins a URL, "w" is text that does not, "o" is *)
(* an OSC 8 link, "b" is blank.  So a link is a logical line that begins a  *)
(* URL, its address all of the line's letters, its cells the line's rows;   *)
(* an OSC 8 link is its row.  Row -1 is the row above the viewport.         *)
(***************************************************************************)
EXTENDS Integers, Sequences, FiniteSets

CONSTANTS Rows,       \* the viewport's height
          MaxWrites,  \* bound on what the program writes
          MaxMoves,   \* bound on what the pointer does
          MaxSteps    \* bound on both together

ASSUME RowsAssumption == Rows \in Nat

VARIABLES screen,   \* the engine's rows, from -1
          frames,   \* frames on their way: a screen and whether it scrolled
          mirror,   \* the tracker's mirror
          trk,      \* LinkTracker's fields
          ctl,      \* LinkController's fields
          question, \* the row asked about and the line answered, or none
          opened,   \* what the last release activated
          writes, moves
linkVars == <<screen, frames, mirror, trk, ctl, question, opened, writes, moves>>

View == 0..(Rows - 1)
None == -9
NoLink == [uri |-> <<>>, rows |-> {}]
Row(text, wraps) == [text |-> text, wraps |-> wraps]

LinkInit ==
  /\ screen = [r \in -1..(Rows - 1) |-> Row("b", FALSE)]
  /\ frames = <<>> /\ mirror = [r \in View |-> Row("b", FALSE)]
  /\ trk = [lines |-> {}, cell |-> None, pressed |-> None, asked |-> None, inflight |-> FALSE,
            moved |-> FALSE, unchecked |-> FALSE, stale |-> TRUE, disposed |-> FALSE]
  /\ ctl = [links |-> {}, hovered |-> NoLink, last |-> None, pressed |-> NoLink]
  /\ question = [row |-> None, line |-> <<>>] /\ opened = NoLink /\ writes = 0 /\ moves = 0

----------------------------------------------------------------------------
(* The engine and its frames (external: FrameStream). *)
Writes == writes < MaxWrites /\ writes + moves < MaxSteps /\ writes' = writes + 1
Send(s, scrolled) == /\ screen' = s
                     /\ frames' = Append(frames, [rows |-> [r \in View |-> s[r]], scrolled |-> scrolled])
WriteRow == /\ Writes /\ \E r \in View, text \in {"u", "w", "o", "b"}, wraps \in BOOLEAN :
              /\ wraps => r < Rows - 1 /\ text \in {"u", "w"} /\ screen[r + 1].text = "w"
              /\ Send([screen EXCEPT ![r] = Row(text, wraps),
                                     ![r - 1] = Row(@.text, @.wraps /\ text = "w")], FALSE)
            /\ UNCHANGED <<mirror, trk, ctl, question, opened, moves>>
ScrollUp == /\ Writes
            /\ Send([r \in DOMAIN screen |-> IF r < Rows - 1 THEN screen[r + 1] ELSE Row("b", FALSE)], TRUE)
            /\ UNCHANGED <<mirror, trk, ctl, question, opened, moves>>
\* viewport_logical_lines: the wrapped run of rows around r.
Joined(s, a, b) == \A r \in a..(b - 1) : s[r].wraps
LogicalLine(s, r) ==
  LET first == CHOOSE a \in DOMAIN s : a <= r /\ Joined(s, a, r) /\ \A x \in DOMAIN s : x <= r /\ Joined(s, x, r) => a <= x
      last == CHOOSE b \in DOMAIN s : b >= r /\ Joined(s, r, b) /\ \A x \in DOMAIN s : x >= r /\ Joined(s, r, x) => b >= x
  IN  [x \in first..last |-> s[x].text]
PortAnswers == /\ question.row # None /\ question.line = <<>>
               /\ question' = [question EXCEPT !.line = LogicalLine(screen, question.row)]
               /\ UNCHANGED <<screen, frames, mirror, trk, ctl, opened, writes, moves>>

----------------------------------------------------------------------------
(* What the mirror still shows.  A cached answer is the row asked and the   *)
(* letters of its line by row; a blank line has no cells.                   *)
Cached(row, line) == [row |-> row, line |-> IF line = <<>> \/ line[row] = "b" THEN <<>> ELSE line]
Spans(c) == DOMAIN c.line \cup {c.row}
\* Mutant of IsCurrent: the text is compared and the wraps are not.
IsCurrentText(c, m) ==
  /\ c.row \in View
  /\ IF DOMAIN c.line = {} THEN m[c.row].text = "b"
     ELSE \A r \in DOMAIN c.line \cap View : m[r].text = c.line[r]
IsCurrent(c, m) ==
  LET in == {r \in DOMAIN c.line : r \in View}
      after == {r \in View : r \in DOMAIN c.line /\ r + 1 \notin DOMAIN c.line}
      before == {r \in View : r + 1 \in DOMAIN c.line /\ r \notin DOMAIN c.line}
  IN  /\ c.row \in View
      /\ IF DOMAIN c.line = {} THEN m[c.row].text = "b"
         ELSE /\ \A r \in in : m[r].text = c.line[r]
              /\ \A r \in in : r + 1 \in DOMAIN c.line => m[r].wraps
              /\ \A r \in after \cup before : ~m[r].wraps
Check(k, m) ==
  LET kept == {c \in k.lines : IsCurrent(c, m)}
  IN  IF k.unchecked THEN [k EXCEPT !.unchecked = FALSE, !.stale = @ \/ kept # k.lines, !.lines = kept] ELSE k
ScrolledLine(c) == [row |-> c.row - 1, line |-> [r \in {x - 1 : x \in DOMAIN c.line} |-> c.line[r + 1]]]

----------------------------------------------------------------------------
(* LinkController. *)
ComputeLinks(c) ==
  LET uri == [i \in 1..Cardinality(DOMAIN c.line) |->
                c.line[CHOOSE r \in DOMAIN c.line : Cardinality({x \in DOMAIN c.line : x < r}) = i - 1]]
  IN  IF uri # <<>> /\ uri[1] = "u" THEN {[uri |-> uri, rows |-> DOMAIN c.line]} ELSE {}
Osc8Links(m) == {[uri |-> <<"o">>, rows |-> {r}] : r \in {x \in View : m[x].text = "o"}}
LinkAt(links, r) == LET at == {l \in links : r \in l.rows} IN IF at = {} THEN NoLink ELSE CHOOSE l \in at : TRUE
Resolved(c, r) == [c EXCEPT !.hovered = LinkAt(c.links, r)]
SetLinks(c, links) == IF c.last # None THEN Resolved([c EXCEPT !.links = links], c.last) ELSE [c EXCEPT !.links = links]
Refresh(c, k, m) == SetLinks(c, Osc8Links(m) \cup UNION {ComputeLinks(x) : x \in k.lines})
Fresh(k) == [k EXCEPT !.stale = FALSE]
RefreshIf(cond, c, k, m) == IF cond THEN Refresh(c, k, m) ELSE c

(* LinkTracker. *)
\* ask: one question at a time, once per row and frame, and only after the pointer moved.
MayAsk(k) == /\ k.cell # None /\ k.moved /\ ~k.inflight /\ ~k.disposed
             /\ ~\E c \in k.lines : k.cell \in Spans(c)
             /\ k.asked # k.cell
Asking(k) == IF MayAsk(k) THEN [k EXCEPT !.asked = k.cell, !.moved = FALSE, !.inflight = TRUE] ELSE k
Asks(k) == trk' = Asking(k) /\ question' = IF MayAsk(k) THEN [row |-> k.cell, line |-> <<>>] ELSE question

ApplyFrame ==
  /\ frames # <<>> /\ frames' = Tail(frames)
  /\ LET f == Head(frames)
         k == [trk EXCEPT !.lines = IF f.scrolled THEN {ScrolledLine(c) : c \in @} ELSE @,
                          !.asked = None, !.unchecked = TRUE, !.stale = TRUE]
     IN  /\ mirror' = f.rows
         /\ IF trk.cell # None
            THEN trk' = Fresh(Check(k, f.rows)) /\ ctl' = Refresh(ctl, Check(k, f.rows), f.rows)
            ELSE trk' = k /\ UNCHANGED ctl
  /\ UNCHANGED <<screen, question, opened, writes, moves>>
\* The answers about its rows are dropped; without a pointer the links are left for later.
KeepAnswer(k, c) ==
  [k EXCEPT !.lines = {x \in @ : Spans(x) \cap Spans(c) = {}} \cup {c}, !.stale = k.cell = None]
Settle ==
  /\ question.line # <<>>
  /\ LET c == Cached(question.row, question.line)
         k == [trk EXCEPT !.inflight = FALSE]
         kept == KeepAnswer(k, c)
         after == IF IsCurrent(c, mirror) THEN kept ELSE k
     IN  /\ IF k.disposed THEN trk' = k /\ UNCHANGED ctl
            ELSE /\ trk' = Asking(after)
                 /\ ctl' = RefreshIf(IsCurrent(c, mirror) /\ k.cell # None, ctl, kept, mirror)
         /\ question' = IF ~k.disposed /\ MayAsk(after) THEN [row |-> after.cell, line |-> <<>>]
                        ELSE [row |-> None, line |-> <<>>]
  /\ UNCHANGED <<screen, frames, mirror, opened, writes, moves>>

Moves == moves < MaxMoves /\ writes + moves < MaxSteps /\ moves' = moves + 1
PointerAt(r) ==
  /\ Moves
  /\ LET k == Check([trk EXCEPT !.cell = r], mirror)
         c == RefreshIf(k.stale, ctl, k, mirror)
     IN  Asks([Fresh(k) EXCEPT !.moved = TRUE]) /\ ctl' = Resolved([c EXCEPT !.last = r], r)
  /\ UNCHANGED <<screen, frames, mirror, opened, writes>>
PointerLeaves ==
  /\ Moves /\ trk' = [trk EXCEPT !.cell = None]
  /\ ctl' = [ctl EXCEPT !.last = None, !.hovered = NoLink]
  /\ UNCHANGED <<screen, frames, mirror, question, opened, writes>>
\* A press off the grid, or one the consumer's gate refuses, is at None.
Press(r) ==
  /\ Moves
  /\ LET k == Check(trk, mirror)
         c == RefreshIf(k.stale, ctl, k, mirror)
     IN  trk' = [Fresh(k) EXCEPT !.pressed = r] /\ ctl' = [c EXCEPT !.pressed = LinkAt(c.links, r)]
  /\ UNCHANGED <<screen, frames, mirror, question, opened, writes>>
Drag(r) ==
  /\ Moves /\ trk.pressed # None /\ trk.pressed # r
  /\ trk' = [trk EXCEPT !.pressed = None] /\ ctl' = [ctl EXCEPT !.pressed = NoLink]
  /\ UNCHANGED <<screen, frames, mirror, question, opened, writes>>
Release(r) ==
  /\ Moves
  /\ LET k == Check(trk, mirror)
         c == RefreshIf(k.stale, ctl, k, mirror)
         at == LinkAt(c.links, r)
     IN  /\ trk' = [Fresh(k) EXCEPT !.pressed = None] /\ ctl' = [c EXCEPT !.pressed = NoLink]
         /\ opened' = IF at = c.pressed THEN at ELSE NoLink
  /\ UNCHANGED <<screen, frames, mirror, question, writes>>
Dispose == /\ Moves /\ trk' = [trk EXCEPT !.disposed = TRUE]
           /\ UNCHANGED <<screen, frames, mirror, ctl, question, opened, writes>>

LinkNext == \/ WriteRow \/ ScrollUp \/ PortAnswers \/ ApplyFrame \/ Settle
            \/ (\E r \in View : PointerAt(r)) \/ PointerLeaves
            \/ (\E r \in View \cup {None} : Press(r) \/ Drag(r) \/ Release(r)) \/ Dispose
LinkSpec == LinkInit /\ [][LinkNext]_linkVars

----------------------------------------------------------------------------
\* Is the link on the mirror m, whole, as far as the viewport goes?
IsShown(l, m) ==
  \/ l.uri = <<"o">> /\ \A r \in l.rows : m[r].text = "o"
  \/ /\ \A r \in l.rows \cap View :
          /\ m[r].text = l.uri[Cardinality({x \in l.rows : x < r}) + 1]
          /\ m[r].wraps <=> r + 1 \in l.rows
     /\ \A r \in View : r + 1 \in l.rows /\ r \notin l.rows => ~m[r].wraps

\* applyFrame, pointer, settle and isCurrent (link-tracker.ts): the link under the pointer is one
\* the mirror shows now, at the pointer, however late its answer came and whatever scrolled.
HoverIsShown == ctl.hovered # NoLink => ctl.last \in ctl.hovered.rows /\ IsShown(ctl.hovered, mirror)

\* press, drag and release: what a release opens is on the mirror, and was pressed at that cell.
OpensWhatIsShown == [][opened' # opened /\ opened' # NoLink => IsShown(opened', mirror) /\ opened' = ctl.pressed]_linkVars

\* settle: no two answers held are about the same row.
OneAnswerPerRow == \A c \in trk.lines, d \in trk.lines : c # d => Spans(c) \cap Spans(d) = {}

\* The link hovered is on the screen, and a release opens the one that was pressed there.
LinksAreCurrent == [](HoverIsShown /\ OneAnswerPerRow) /\ OpensWhatIsShown
=============================================================================
