----------------------------- MODULE Announcer -----------------------------
(***************************************************************************)
(* What a screen reader is told: AccessibilityController (accessibility.ts)  *)
(* finds a frame's new output by comparing rows, drops the echo of what was  *)
(* typed and announces the rest once output pauses, with a cap on the wait;  *)
(* Accessibility (accessibility-dom.ts) feeds it frames, and the host says   *)
(* whether a screen reader listens.  Meanwhile keys are typed, focus leaves, *)
(* the screen is repainted and the alternate screen comes and goes.          *)
(*                                                                         *)
(* A text is a sequence of letters; time is counted from a batch's first     *)
(* push and from the last announcement, up to the cap.  Output only appends. *)
(***************************************************************************)
EXTENDS Integers, Sequences, FiniteSets, SequencesExt

CONSTANTS Letters,                 \* what is printed and typed
          Rows,
          Debounce, MaxWait,       \* ANNOUNCE_DEBOUNCE_MS, ANNOUNCE_MAX_WAIT_MS
          MaxRowsToRead,
          MaxActs                  \* bound on what happens

VARIABLES screen,                  \* the engine's rows, each with how many letters are new
          scrolled, full, alt,     \* what the next frame says of itself
          active,                  \* ScreenReaderState
          ctl,                     \* AccessibilityController's fields, and the row tree
          said, ought,             \* (history) announced, and shown as output, since the last reset
          typed,                   \* (history) letters typed since the reader was last turned on
          acts
announcerVars == <<screen, scrolled, full, alt, active, ctl, said, ought, typed, acts>>

None == -1
Blank == [text |-> <<>>, new |-> 0]
Texts(rows) == [i \in 1..Rows |-> rows[i].text]

\* At the start, or after a frame of a blank screen, with or without an announcement just made.
AnnouncerInit ==
  /\ screen = [i \in 1..Rows |-> Blank] /\ scrolled = 0 /\ full = FALSE /\ alt \in BOOLEAN /\ active = TRUE
  /\ \E seen \in {<<>>, Texts(screen)}, idle \in {None, 0} :
       /\ seen = <<>> => idle = None
       /\ ctl = [prev |-> seen, tree |-> seen, consume |-> <<>>, pending |-> <<>>, timer |-> None, age |-> None,
                 idle |-> idle]
  /\ said = <<>> /\ ought = <<>> /\ typed = <<>> /\ acts = 0

-----------------------------------------------------------------------------
(* The announcement: a batch, its timer and the time since the last.       *)
CancelPending(s) == [s EXCEPT !.timer = None, !.age = None, !.pending = <<>>]
IdleForLeadingEdge(s) == s.idle = None \/ s.idle >= MaxWait
Flushed(s) == [s EXCEPT !.timer = None, !.age = None, !.pending = <<>>, !.idle = IF s.pending = <<>> THEN @ ELSE 0]

\* The pushed text leads, or waits for a pause of Debounce, but at most MaxWait in all.
Leads(s) == s.age = None /\ IdleForLeadingEdge(s)
Age(s) == IF s.age = None THEN 0 ELSE s.age
FlushesNow(s) == Leads(s) \/ Age(s) >= MaxWait
\* Mutant of Wait: a batch that goes on is put off for a whole pause again.
WaitAnew(s) == Debounce
Wait(s) == IF MaxWait - Age(s) < Debounce THEN MaxWait - Age(s) ELSE Debounce
Armed(s) == [s EXCEPT !.age = Age(s), !.timer = Wait(s)]

Lines(texts) == Len(SelectSeq(FlattenSeq(texts), LAMBDA c : c = "newline")) + Len(texts)
Spoken(texts) == SelectSeq(FlattenSeq(texts), LAMBDA c : c # "newline")
\* What flush() leaves the reader with: a flood is a notice to review the rows, and nothing is owed.
Announces(texts) ==
  IF Lines(texts) > MaxRowsToRead /\ active THEN said' = <<>> /\ ought' = <<>>
  ELSE said' = IF active THEN said \o Spoken(texts) ELSE said

-----------------------------------------------------------------------------
(* A frame's new output.                                                    *)
CommonPrefixLen(a, b) ==
  Max({n \in 0..Len(a) : n <= Len(b) /\ SubSeq(a, 1, n) = SubSeq(b, 1, n)})
ShiftPrev(prev) == [i \in 1..Rows |-> IF i + scrolled <= Rows THEN prev[i + scrolled] ELSE <<>>]
Fresh(prev, rows) ==
  LET changed == SetToSortSeq({i \in 1..Rows : rows[i] # prev[i]}, <)
      suffix(i) == SubSeq(rows[i], CommonPrefixLen(prev[i], rows[i]) + 1, Len(rows[i]))
      parts == [k \in 1..Len(changed) |-> IF k = 1 THEN suffix(changed[k]) ELSE <<"newline">> \o suffix(changed[k])]
  IN  FlattenSeq(parts)
\* One typed letter is spent on each letter that is output, whether or not they are the same.
Remaining(consume, n) == SubSeq(consume, n + 1, Len(consume))
DedupTyped(consume, fresh) ==
  LET kept == SetToSortSeq({i \in 1..Len(fresh) : i > Len(consume) \/ consume[i] # fresh[i]}, <)
  IN  [k \in 1..Len(kept) |-> fresh[kept[k]]]

Shown == FlattenSeq([i \in 1..Rows |-> SubSeq(screen[i].text, Len(screen[i].text) - screen[i].new + 1,
                                              Len(screen[i].text))])
Act == acts < MaxActs /\ acts' = acts + 1
Frame ==
  LET rows == Texts(screen)
      mirrored == [ctl EXCEPT !.prev = rows, !.tree = IF active THEN rows ELSE @]
      fresh == Fresh(ShiftPrev(ctl.prev), rows)
      text == DedupTyped(ctl.consume, fresh)
      drained == [mirrored EXCEPT !.consume = Remaining(@, Len(fresh))]
      pushed == [drained EXCEPT !.pending = Append(@, text)]
  IN  /\ Act
      /\ screen' = [i \in 1..Rows |-> [screen[i] EXCEPT !.new = 0]] /\ scrolled' = 0 /\ full' = FALSE
      /\ \/ /\ ~active \/ ctl.prev = <<>> \/ alt \/ full
            /\ ctl' = mirrored /\ UNCHANGED <<said, ought>>
         \/ /\ active /\ ctl.prev # <<>> /\ ~alt /\ ~full /\ text = <<>>
            /\ ctl' = drained /\ ought' = ought \o Shown /\ UNCHANGED said
         \/ /\ active /\ ctl.prev # <<>> /\ ~alt /\ ~full /\ text # <<>> /\ FlushesNow(pushed)
            /\ ctl' = Flushed(pushed)
            /\ Announces(pushed.pending)
            /\ Lines(pushed.pending) <= MaxRowsToRead => ought' = ought \o Shown
         \/ /\ active /\ ctl.prev # <<>> /\ ~alt /\ ~full /\ text # <<>> /\ ~FlushesNow(pushed)
            /\ ctl' = Armed(pushed) /\ ought' = ought \o Shown /\ UNCHANGED said
      /\ UNCHANGED <<alt, active, typed>>

Fire ==
  /\ Act /\ ctl.timer = 0 /\ ctl' = Flushed(ctl)
  /\ Announces(ctl.pending) /\ ((~active \/ Lines(ctl.pending) <= MaxRowsToRead) => UNCHANGED ought)
  /\ UNCHANGED <<screen, scrolled, full, alt, active, typed>>

-----------------------------------------------------------------------------
(* Keys, focus, and the reader coming and going.                           *)
Forget == said' = <<>> /\ ought' = <<>>
Engine == UNCHANGED <<screen, scrolled, full, alt>>
Queued(s, c) == [s EXCEPT !.consume = IF active /\ c \in Letters THEN Append(@, c) ELSE @]
OnKey(s, c) == Queued(CancelPending(s), c)
Key ==
  /\ Act /\ \E c \in Letters \cup {"control"} :
              /\ ctl' = OnKey(ctl, c)
              /\ typed' = IF active /\ c \in Letters THEN Append(typed, c) ELSE typed
  /\ Forget /\ Engine /\ UNCHANGED active
OnBlur == Act /\ ctl' = CancelPending(ctl) /\ Forget /\ Engine /\ UNCHANGED <<active, typed>>

SyncTree(s) == IF s.prev = <<>> THEN s ELSE [s EXCEPT !.tree = s.prev]
Reactivate(s) == SyncTree([CancelPending(s) EXCEPT !.idle = None, !.consume = <<>>])
SetScreenReaderActive ==
  /\ Act /\ active' = ~active
  /\ \/ active' /\ ctl' = Reactivate(ctl) /\ Forget /\ typed' = <<>>
     \/ ~active' /\ UNCHANGED <<ctl, said, ought, typed>>
  /\ Engine

\* Time passes; a timer may be late.
Passed(n) == IF n = None THEN None ELSE IF n < MaxWait THEN n + 1 ELSE n
Tick ==
  /\ Act /\ ctl' = [ctl EXCEPT !.timer = IF @ > 0 THEN @ - 1 ELSE @, !.age = Passed(@), !.idle = Passed(@)]
  /\ ctl' # ctl
  /\ Engine /\ UNCHANGED <<active, said, ought, typed>>

-----------------------------------------------------------------------------
(* What the engine shows: output at the bottom row, line feeds, repaints.  *)
Host == UNCHANGED <<active, ctl, said, ought, typed>>
PrintLetter ==
  /\ Act /\ \E c \in Letters : screen' = [screen EXCEPT ![Rows] = [text |-> Append(@.text, c), new |-> @.new + 1]]
  /\ UNCHANGED <<scrolled, full, alt>> /\ Host
LineFeed ==
  /\ Act /\ screen' = Append(Tail(screen), Blank) /\ scrolled' = scrolled + 1
  /\ UNCHANGED <<full, alt>> /\ Host
Repaint == /\ Act /\ \E c \in Letters : screen' = [i \in 1..Rows |-> [text |-> <<c>>, new |-> 0]]
           /\ full' = TRUE /\ scrolled' = 0 /\ alt' \in BOOLEAN /\ Host

AnnouncerNext == \/ Frame \/ Fire \/ Key \/ OnBlur \/ SetScreenReaderActive \/ Tick
                 \/ PrintLetter \/ LineFeed \/ Repaint

-----------------------------------------------------------------------------
\* What has been shown as output is announced or about to be, once and in order,
\* but for letters somebody typed.
Told(spoken) ==
  \E heard \in SUBSET (1..Len(ought)) :
    LET kept == SetToSortSeq(heard, <)
        dropped(c) == {i \in 1..Len(ought) \ heard : ought[i] = c}
    IN  /\ spoken = [k \in 1..Len(kept) |-> ought[kept[k]]]
        /\ \A c \in Letters : Cardinality(dropped(c)) <= Len(SelectSeq(typed, LAMBDA t : t = c))

\* A listening reader misses no output and hears none twice, nothing waits without
\* a timer or past the cap, and the rows it can review are those of the last frame.
ReaderIsTold ==
  /\ active => Told(said \o Spoken(ctl.pending)) /\ ctl.tree = ctl.prev
  /\ ctl.pending # <<>> => ctl.timer # None /\ ctl.timer + ctl.age <= MaxWait
  /\ ctl.pending = <<>> => ctl.timer = None /\ ctl.age = None
=============================================================================
