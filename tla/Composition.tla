----------------------------- MODULE Composition -----------------------------
(***************************************************************************)
(* The IME of justerm-web: a hidden textarea takes the composition events,  *)
(* and CompositionController (composition.ts) recovers the committed text   *)
(* from its value in a later task, while terminal.ts clears the textarea    *)
(* once nothing is in flight.                                               *)
(*                                                                         *)
(* A keystroke is a burst of DOM events (the browser's, external); the       *)
(* textarea changes after the handler of the event that changes it.  Tasks  *)
(* of setTimeout(0) run in order, between any two events of a burst, and     *)
(* all of them before the next keystroke.  Text is a sequence of letters,   *)
(* each written once, so a loss, a repeat and a swap all show.              *)
(***************************************************************************)
EXTENDS Integers, Sequences, SequencesExt

CONSTANTS Prefills,      \* what the textarea holds when the session starts, around the caret
          MaxKeystrokes  \* bound on the keystrokes of a session

ASSUME PrefillsAreTexts == Prefills \subseteq Seq(Int) \X Seq(Int)

VARIABLES area,       \* the textarea: value, caret, and where the browser's composition began (or none)
          ime,        \* the fields of CompositionController
          tasks,      \* deferred callbacks, in order
          burst,      \* the events of the keystroke still to come
          sent,       \* what went to the sink
          committed,  \* ghost: what the user committed, in order
          strokes     \* keystrokes so far; also names the letters
imeVars == <<area, ime, tasks, burst, sent, committed, strokes>>

Key == 1   \* a key intent, in sent; letters are above
DEL == 2
NoStart == -1
Larger(a, b) == IF a > b THEN a ELSE b
Lesser(a, b) == IF a < b THEN a ELSE b
\* String.prototype.substring: both ends clamped, and exchanged when reversed.
Substring(s, from, to) ==
  LET a == Lesser(from, Len(s))
      b == Lesser(to, Len(s))
  IN  SubSeq(s, Lesser(a, b) + 1, Larger(a, b))
\* newValue.replace(oldValue, ""): the first occurrence goes.
WithoutFirst(s, old) ==
  LET at == {i \in 0..Len(s) : Substring(s, i, i + Len(old)) = old /\ i + Len(old) <= Len(s)}
  IN  IF at = {} THEN s
      ELSE LET i == CHOOSE i \in at : \A j \in at : i <= j IN Substring(s, 0, i) \o Substring(s, i + Len(old), Len(s))

ImeInit ==
  /\ \E p \in Prefills : area = [value |-> p[1] \o p[2], caret |-> Len(p[1]), from |-> NoStart]
  /\ ime = [composing |-> FALSE, sending |-> FALSE, start |-> 0, end |-> 0, suffix |-> <<>>, already |-> <<>>, pending |-> FALSE]
  /\ tasks = <<>> /\ burst = <<>> /\ sent = <<>> /\ committed = <<>> /\ strokes = 0

----------------------------------------------------------------------------
(* The controller. *)
\* Mutant of Active: a commit that is still to be read does not count.
ComposingOnly(c) == c.composing
Active(c) == c.composing \/ c.sending
Emit(text) == sent' = sent \o text

CompositionStart(c) ==
  [c EXCEPT !.composing = TRUE, !.start = area.caret, !.end = area.caret,
            !.suffix = Substring(area.value, area.caret, Len(area.value)), !.already = <<>>]
FinalizeDeferred(c) == [c EXCEPT !.composing = FALSE, !.sending = TRUE]
ReadTask(c) == [do |-> "read", start |-> c.start, suffix |-> c.suffix]
FinalizeNow(c) == [c EXCEPT !.composing = FALSE, !.sending = FALSE]
DiffTask == [do |-> "diff", old |-> area.value]

\* keydown, for the input method's own key code, a modifier and any other key.
KeydownTasks(code, c) ==
  IF Active(c) THEN <<>> ELSE IF code = "ime" /\ ~c.pending THEN <<DiffTask>> ELSE <<>>
Finalizes(code, c) == Active(c) /\ code = "other"

\* The deferred read of a commit.
ReadFrom(task, c) == task.start + Len(c.already)
ReadTo(task, c) ==
  LET n == Len(area.value)
      k == Len(task.suffix)
  IN  IF c.composing THEN c.start
      ELSE IF k > 0 /\ k <= n /\ Substring(area.value, n - k, n) = task.suffix THEN n - k ELSE n
ReadCommit(task, c) == Substring(area.value, ReadFrom(task, c), Larger(ReadFrom(task, c), ReadTo(task, c)))

DiffText(task) ==
  LET new == area.value
  IN  IF Len(new) > Len(task.old) THEN WithoutFirst(new, task.old)
      ELSE IF Len(new) < Len(task.old) THEN <<DEL>>
      ELSE IF new # task.old THEN new ELSE <<>>

\* A key's own edit of the text is its default action: no task comes before it.
Atomic == burst # <<>> /\ Head(burst) \in {"insert", "delete"}
RunTask ==
  /\ tasks # <<>> /\ ~Atomic /\ tasks' = Tail(tasks)
  /\ LET task == Head(tasks) IN
       \/ /\ task.do = "end"
          /\ ime' = [ime EXCEPT !.end = Larger(ime.start, area.caret)]
          /\ UNCHANGED <<area, sent>>
       \/ /\ task.do = "read"
          /\ IF ime.sending THEN ime' = [ime EXCEPT !.sending = FALSE] /\ Emit(ReadCommit(task, ime))
                            ELSE UNCHANGED <<ime, sent>>
          /\ UNCHANGED area
       \/ /\ task.do = "diff"
          /\ IF ime.composing THEN ime' = [ime EXCEPT !.pending = FALSE] /\ UNCHANGED sent
             ELSE /\ ime' = [ime EXCEPT !.pending = FALSE, !.already = WithoutFirst(area.value, task.old)]
                  /\ Emit(DiffText(task))
          /\ UNCHANGED area
       \/ /\ task.do = "clear"   \* clearTextareaWhenIdle
          /\ area' = IF Active(ime) THEN area ELSE [area EXCEPT !.value = <<>>, !.caret = 0]
          /\ UNCHANGED <<ime, sent>>
  /\ UNCHANGED <<burst, committed, strokes>>

----------------------------------------------------------------------------
(* The browser. *)
\* The text of the composition, or of one edit at the caret, becomes text.
Replaced(a, from, text) ==
  [a EXCEPT !.value = Substring(@, 0, from) \o text \o Substring(@, a.caret, Len(@)), !.caret = from + Len(text)]
Letters(n) == [i \in 1..n |-> 10 * strokes + i]
Composed == Substring(area.value, area.from, area.caret)

\* What one press makes the browser dispatch: while composing it may extend or change the
\* syllable, end it (and start the next), end it and pass the key on, or be a modifier.
Bursts ==
  IF area.from = NoStart
  THEN {<<"ime", "start", "update">>, <<"ime", "insert">>, <<"other">>} \cup (IF area.caret > 0 THEN {<<"ime", "delete">>} ELSE {})
  ELSE {<<"ime", "update">>, <<"ime", "end">>, <<"ime", "end", "start", "update">>, <<"ime", "end", "other">>,
        <<"modifier">>, <<"other">>}
Keystroke ==
  /\ burst = <<>> /\ tasks = <<>> /\ strokes < MaxKeystrokes
  /\ strokes' = strokes + 1 /\ burst' \in Bursts
  \* A plain edit is at the end of the text.
  /\ (Last(burst') \in {"insert", "delete"} => area.caret = Len(area.value))
  /\ UNCHANGED <<area, ime, tasks, sent, committed>>

Dispatched(name) == burst # <<>> /\ Head(burst) = name /\ burst' = Tail(burst) /\ UNCHANGED strokes

OnKeydown(code) ==
  /\ Dispatched(code)
  /\ LET open == area.from # NoStart
         closes == code = "other" /\ open   \* and no compositionend comes
     IN  /\ ime' = IF Finalizes(code, ime) THEN FinalizeNow(ime)
                   ELSE [ime EXCEPT !.pending = @ \/ KeydownTasks(code, ime) # <<>>]
         /\ tasks' = tasks \o KeydownTasks(code, ime) \o <<[do |-> "clear"]>>
         /\ Emit((IF Finalizes(code, ime) THEN Substring(area.value, ime.start, Larger(ime.start, ime.end)) ELSE <<>>)
                 \o (IF code = "other" THEN <<Key>> ELSE <<>>))
         /\ committed' = committed \o (IF closes THEN Composed ELSE <<>>) \o (IF code = "other" THEN <<Key>> ELSE <<>>)
         /\ area' = IF closes THEN [area EXCEPT !.from = NoStart] ELSE area

OnStart == /\ Dispatched("start")
           /\ ime' = CompositionStart(ime) /\ area' = [area EXCEPT !.from = area.caret]
           /\ UNCHANGED <<tasks, sent, committed>>
OnUpdate == /\ Dispatched("update")
            /\ \E n \in 1..2 : area' = Replaced(area, area.from, Letters(n))
            /\ tasks' = Append(tasks, [do |-> "end"])
            /\ UNCHANGED <<ime, sent, committed>>
\* The last letter may have migrated to the next syllable: the committed text need not be
\* the one last shown, when the next composition begins with it.
OnEnd == /\ Dispatched("end")
         /\ \E drop \in IF Len(Composed) > 1 /\ Tail(burst) # <<>> /\ Last(burst) = "update" THEN {0, 1} ELSE {0} :
              LET final == Substring(Composed, 0, Len(Composed) - drop)
              IN  /\ area' = [Replaced(area, area.from, final) EXCEPT !.from = NoStart]
                  /\ committed' = committed \o final
         /\ ime' = FinalizeDeferred(ime)
         /\ tasks' = tasks \o <<ReadTask(ime), [do |-> "clear"]>>
         /\ UNCHANGED sent
PlainInsert == /\ Dispatched("insert")
               /\ area' = Replaced(area, area.caret, Letters(1)) /\ committed' = committed \o Letters(1)
               /\ UNCHANGED <<ime, tasks, sent>>
PlainDelete == /\ Dispatched("delete")
               /\ area' = IF area.caret = 0 THEN area ELSE Replaced(area, area.caret - 1, <<>>)
               /\ committed' = IF area.caret = 0 THEN committed ELSE Append(committed, DEL)
               /\ UNCHANGED <<ime, tasks, sent>>

ImeNext == \/ Keystroke \/ RunTask \/ OnKeydown("ime") \/ OnKeydown("modifier") \/ OnKeydown("other")
           \/ OnStart \/ OnUpdate \/ OnEnd \/ PlainInsert \/ PlainDelete
ImeSpec == ImeInit /\ [][ImeNext]_imeVars

----------------------------------------------------------------------------
\* CompositionController and clearTextareaWhenIdle (composition.ts, terminal.ts): what goes to
\* the sink is what was committed, each letter once and in order with the keys, nothing of a
\* composition still open, and all of it once the tasks have run.
CommitsInOrder == /\ IsPrefix(sent, committed)
                  /\ (burst = <<>> /\ tasks = <<>>) => sent = committed
=============================================================================
