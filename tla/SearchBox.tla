------------------------------ MODULE SearchBox ------------------------------
(***************************************************************************)
(* SearchController of justerm-web (search.ts) against the backend behind  *)
(* its SearchPort: every question is a round trip, the buffer changes under *)
(* it, a debounced re-search runs on its own, and the user searches, steps  *)
(* and leaves at any time.                                                  *)
(*                                                                         *)
(* Requests are handled in order and answered in order.  An occurrence of   *)
(* the query is a number, in buffer order; a set of matches is a sequence   *)
(* of them.  What a call does after an await travels with its question, as  *)
(* the call's continuation.  anchoredIndex and matchLines are asked together *)
(* and awaited together: one round trip.                                    *)
(***************************************************************************)
EXTENDS Integers, Sequences

CONSTANTS Buffers,   \* the occurrences the buffer may hold: increasing sequences
          MaxUser,   \* bound on what the user does
          MaxChanges \* bound on changes of the buffer

ASSUME BuffersAreOccurrences == Buffers \subseteq Seq(Nat)

VARIABLES box,     \* SearchController's fields
          up,      \* requests on their way to the backend
          down,    \* answers on their way back
          back,    \* the backend: buffer, matches handed over, paint, active match, anchor
          due,     \* a changed frame has not reached onFrame yet
          acts,    \* what the user did so far
          changes  \* how often the buffer changed
searchVars == <<box, up, down, back, due, acts, changes>>

Nothing == 0  \* no active match, no anchor
Absent == -1  \* anchoredIndex answers undefined

SearchInit ==
  /\ box = [query |-> "none", total |-> 0, index |-> 0, lines |-> <<>>, epoch |-> 0, timer |-> FALSE]
  /\ up = <<>> /\ down = <<>>
  /\ \E b \in Buffers : back = [buffer |-> b, held |-> <<>>, paint |-> <<>>, active |-> Nothing, anchor |-> Nothing]
  /\ due = FALSE /\ acts = 0 /\ changes = 0

----------------------------------------------------------------------------
(* The backend. *)
\* The index of the anchored occurrence, or of the first at or after it, wrapping.
AnchoredIndex(b) ==
  LET after == {i \in 1..Len(b.held) : b.held[i] >= b.anchor}
  IN  IF b.anchor = Nothing THEN Absent
      ELSE IF after = {} THEN 0 ELSE (CHOOSE i \in after : \A j \in after : i <= j) - 1
\* showMatch and designateMatch; an index past the set designates nothing.
Designated(b, index) ==
  IF index < Len(b.held) THEN [b EXCEPT !.active = b.held[index + 1], !.anchor = b.held[index + 1]] ELSE b
Handled(b, r) ==
  CASE r.ask = "search" -> [b EXCEPT !.held = b.buffer, !.paint = b.buffer, !.active = Nothing]
    [] r.ask = "show" -> Designated(b, r.index)
    [] r.ask = "clearHighlights" -> [b EXCEPT !.paint = <<>>, !.held = <<>>, !.active = Nothing]
    [] r.ask = "clear" -> [b EXCEPT !.paint = <<>>, !.held = <<>>, !.active = Nothing, !.anchor = Nothing]
    [] OTHER -> b
Backend ==
  /\ up # <<>> /\ up' = Tail(up)
  /\ LET r == Head(up)
         b == Handled(back, r)
     IN  /\ back' = b
         /\ \E lines \in IF r.ask = "where" THEN {b.held, <<>>} ELSE {<<>>} :   \* matchLines may reject
              down' = IF r.ask \in {"search", "where"}
                      THEN Append(down, [k |-> r.k, total |-> Len(b.held), anchored |-> AnchoredIndex(b), lines |-> lines])
                      ELSE down
  /\ UNCHANGED <<box, due, acts, changes>>
\* The program writes: the matches of the buffer are others, and the engine drops its paint.
Change ==
  /\ changes < MaxChanges /\ changes' = changes + 1
  /\ \E b \in Buffers : b # back.buffer /\ back' = [back EXCEPT !.buffer = b, !.paint = <<>>, !.active = Nothing]
  /\ due' = TRUE /\ UNCHANGED <<box, up, down, acts>>

----------------------------------------------------------------------------
(* The controller. *)
User == acts < MaxUser /\ acts' = acts + 1
Ask(r) == up' = Append(up, r)
Show(index) == [ask |-> "show", index |-> index]
Cont(does, at, epoch, total) == [does |-> does, at |-> at, epoch |-> epoch, total |-> total]
Smaller(a, b) == IF a < b THEN a ELSE b

Search ==
  /\ User /\ box' = [box EXCEPT !.epoch = @ + 1, !.query = "valid"]
  /\ Ask([ask |-> "search", k |-> Cont("search", "total", box'.epoch, 0)])
  /\ UNCHANGED <<down, back, due, changes>>
SearchInvalid ==
  /\ User
  /\ box' = [box EXCEPT !.epoch = @ + 1, !.query = "invalid", !.total = 0, !.index = 0, !.lines = <<>>]
  /\ Ask([ask |-> "clearHighlights"])
  /\ UNCHANGED <<down, back, due, changes>>
Clear ==
  /\ User
  /\ box' = [query |-> "none", total |-> 0, index |-> 0, lines |-> <<>>, epoch |-> box.epoch + 1, timer |-> FALSE]
  /\ Ask([ask |-> "clear"])
  /\ UNCHANGED <<down, back, due, changes>>
Step(index) ==
  /\ User /\ box.total # 0
  /\ box' = [box EXCEPT !.index = index] /\ Ask(Show(index))
  /\ UNCHANGED <<down, back, due, changes>>
NextMatch == Step((box.index + 1) % box.total)
PrevMatch == Step((box.index - 1 + box.total) % box.total)

OnFrame ==
  /\ due /\ due' = FALSE
  /\ box' = IF box.query = "none" THEN box ELSE [box EXCEPT !.timer = TRUE]
  /\ UNCHANGED <<up, down, back, acts, changes>>
ReSearch ==
  /\ box.timer /\ box' = [box EXCEPT !.timer = FALSE]
  /\ IF box.query = "invalid" THEN UNCHANGED up
     ELSE Ask([ask |-> "search", k |-> Cont("reSearch", "total", box.epoch, 0)])
  /\ UNCHANGED <<down, back, due, acts, changes>>

\* Mutant of Superseded: every answer is taken.
NeverSuperseded(k) == FALSE
Superseded(k) == k.epoch # box.epoch
\* Both round trips are back: install the set they describe, and put the emphasis in it.
Landed(k, total, anchored) ==
  IF anchored \in 0..(total - 1) THEN anchored
  ELSE IF k.does = "search" \/ total = 0 THEN 0 ELSE Smaller(box.index, total - 1)
Install(k, total, anchored, lines) ==
  /\ box' = [box EXCEPT !.total = total, !.index = Landed(k, total, anchored), !.lines = lines]
  /\ IF total > 0 THEN Ask(Show(box'.index)) ELSE UNCHANGED up
Answer ==
  /\ down # <<>> /\ down' = Tail(down)
  /\ LET a == Head(down)
         k == a.k
     IN  IF Superseded(k) THEN UNCHANGED <<box, up>>
         ELSE IF k.at = "where" THEN Install(k, k.total, a.anchored, a.lines)
         ELSE IF a.total = 0 THEN Install(k, 0, Absent, <<>>)   \* nothing to ask about
         ELSE UNCHANGED box /\ Ask([ask |-> "where", k |-> Cont(k.does, "where", k.epoch, a.total)])
  /\ UNCHANGED <<back, due, acts, changes>>

SearchNext == \/ Backend \/ Change \/ Search \/ SearchInvalid \/ Clear \/ NextMatch \/ PrevMatch
              \/ OnFrame \/ ReSearch \/ Answer
SearchSpec == SearchInit /\ [][SearchNext]_searchVars

----------------------------------------------------------------------------
Drained == up = <<>> /\ down = <<>>
Quiet == Drained /\ ~due /\ ~box.timer

\* clear and the invalid-regex path of search (search.ts): once what was asked is done, a search
\* that was left or rejected shows nothing, whatever was in flight when it ended.
NothingSurvives ==
  (box.query # "valid" /\ up = <<>>) =>
    box.total = 0 /\ box.lines = <<>> /\ back.paint = <<>> /\ back.active = Nothing

\* search, reSearch, next and prev (search.ts): when everything is answered, the match the box
\* counts as current is the one the engine emphasises, and the ruler's lines are that set's.
EmphasisIsCounted ==
  (Quiet /\ box.query = "valid" /\ back.paint # <<>>) =>
    /\ box.total = Len(back.paint)
    /\ back.active = back.paint[box.index + 1]
    /\ box.lines \in {<<>>, back.paint}

\* Both: what the search box shows is what the engine has.
BoxIsTheEngines == NothingSurvives /\ EmphasisIsCounted

\* "a slow response can never resurrect a cleared/replaced search" (search.ts:311): when
\* everything is answered, the box counts the matches of the set handed over last.
CountIsOfTheLastSet == (Quiet /\ box.query = "valid") => box.total = Len(back.held)
=============================================================================
