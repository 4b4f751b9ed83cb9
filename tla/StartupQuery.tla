---------------------------- MODULE StartupQuery ----------------------------
(***************************************************************************)
(* The reader of justerm-pty at the start of a session: it looks for the   *)
(* cursor-position query a ConPTY sends before it runs the child, answers  *)
(* it and withholds it, and hands everything else on.  The output comes in *)
(* reads that end anywhere.                                                *)
(***************************************************************************)
EXTENDS Integers, Sequences, SequencesExt

CONSTANTS Outputs,        \* what a program may write: sequences of bytes
          Cursors,        \* <<row, col>> of the cursor at the start, 0-based
          PtySizes,       \* <<rows, cols>> of the pty
          MaxModeSetting  \* the longest mode setting held while it is incomplete

VARIABLES output,   \* the whole output
          unread,   \* what is left of it
          due,      \* the reply it was made with: <<>> where nothing is watched for
          reply,    \* StartupQuery.reply: <<>> once watching has ended
          held,     \* StartupQuery.held
          fed,      \* what was handed on to the decoder
          answers,  \* the replies written to the pty
          open      \* the reader reads

queryVars == <<output, unread, due, reply, held, fed, answers, open>>

\* Bytes by what they are: Esc, the letters of the query, digits and letters.
Esc == "esc"
Query == <<Esc, "[", "6", "n">>
ModeLead == <<Esc, "[", "?">>
Parameter == {"1", "6", ";"}

\* The number of parameter bytes that follow a mode setting's start.
Params(bytes) ==
  LET rest == SubSeq(bytes, 4, Len(bytes))
  IN  CHOOSE n \in 0..Len(rest) : /\ \A i \in 1..n : rest[i] \in Parameter
                                  /\ n < Len(rest) => rest[n + 1] \notin Parameter
LeadOfWholeSettings(bytes) ==
  IF IsPrefix(Query, bytes) THEN <<"query", 4>>
  ELSE IF IsPrefix(bytes, Query) THEN <<"incomplete", 0>>
  ELSE IF ~IsPrefix(ModeLead, bytes) THEN <<"other", 0>>
  ELSE LET n == Params(bytes)
       IN  IF n > 0 /\ n + 3 < Len(bytes) THEN IF bytes[n + 4] \in {"h", "l"} THEN <<"setting", n + 4>> ELSE <<"other", 0>>
           ELSE <<"other", 0>>
Lead(bytes) ==
  IF IsPrefix(Query, bytes) THEN <<"query", 4>>
  ELSE IF IsPrefix(bytes, Query) \/ (IsPrefix(bytes, ModeLead) /\ bytes # ModeLead) THEN <<"incomplete", 0>>
  ELSE IF ~IsPrefix(ModeLead, bytes) THEN <<"other", 0>>
  ELSE LET n == Params(bytes)
       IN  IF n + 3 = Len(bytes) THEN IF Len(bytes) < MaxModeSetting THEN <<"incomplete", 0>> ELSE <<"other", 0>>
           ELSE IF n > 0 /\ bytes[n + 4] \in {"h", "l"} THEN <<"setting", n + 4>>
           ELSE <<"other", 0>>

From(seen, at) == SubSeq(seen, at + 1, Len(seen))
\* take's loop: where watching stops in what was seen, past the mode settings.
Stop(seen) ==
  LET at[n \in 0..Len(seen)] == IF Lead(From(seen, n))[1] = "setting" THEN at[n + Lead(From(seen, n))[2]] ELSE n
  IN  at[0]
\* take: [answered, what is handed on, what is held, whether it watches on].
Take(seen) ==
  LET at == Stop(seen)
      found == Lead(From(seen, at))[1]
  IN  [answered |-> found = "query",
       on |-> CASE found = "query" -> SubSeq(seen, 1, at) \o From(seen, at + 4)
                [] found = "incomplete" -> SubSeq(seen, 1, at)
                [] OTHER -> seen,
       held |-> IF found = "incomplete" THEN From(seen, at) ELSE <<>>,
       watches |-> found = "incomplete"]

\* cursor_report: 1-based, clamped to the size.
Clamped(at, size) == (IF at < size - 1 THEN at ELSE IF size = 0 THEN 0 ELSE size - 1) + 1
CursorReport(cursor, size) == <<Clamped(cursor[1], size[1]), Clamped(cursor[2], size[2])>>

-----------------------------------------------------------------------------
QueryInit ==
  /\ output \in Outputs /\ unread = output
  /\ due \in {CursorReport(c, s) : c \in Cursors, s \in PtySizes} \cup {<<>>} /\ reply = due
  /\ held = <<>> /\ fed = <<>> /\ answers = <<>> /\ open = TRUE

\* One read, of any length, and what it leads to.
Read ==
  /\ open /\ unread # <<>>
  /\ \E n \in 1..Len(unread) :
       LET bytes == SubSeq(unread, 1, n)
           t == Take(held \o bytes)
       IN  /\ unread' = From(unread, n)
           /\ IF reply = <<>>
                THEN fed' = fed \o bytes /\ UNCHANGED <<reply, held, answers>>
                ELSE /\ fed' = fed \o t.on /\ held' = t.held
                     /\ answers' = IF t.answered THEN Append(answers, reply) ELSE answers
                     /\ reply' = IF t.watches THEN reply ELSE <<>>
  /\ UNCHANGED <<output, due, open>>

\* The output ends, or a read fails: finish, and the held bytes are handed on.
Finish == /\ open /\ open' = FALSE
          /\ fed' = fed \o held /\ held' = <<>> /\ reply' = <<>>
          /\ UNCHANGED <<output, unread, due, answers>>
QueryNext == Read \/ Finish

-----------------------------------------------------------------------------
\* What one read of the output so far would have made of it.
SoFar == SubSeq(output, 1, Len(output) - Len(unread))
\* Settings longer than what is held are told apart from text only when a read has them whole.
ShortSettings == \A i \in 0..Len(output) : Lead(From(output, i))[1] = "setting" => Lead(From(output, i))[2] <= MaxModeSetting

\* However the output is split into reads, what goes on and what is answered is
\* what one read of it gives: the query is withheld and answered once, nothing
\* else is withheld, reordered or lost, and the answer names a cell of the pty.
SplitsAreUnseen ==
  LET t == Take(SoFar)
      answered == answers # <<>>
  IN  /\ Len(answers) <= 1
      /\ \A k \in DOMAIN answers : \E s \in PtySizes : \A d \in {1, 2} : answers[k][d] \in 1..(IF s[d] = 0 THEN 1 ELSE s[d])
      /\ answered => \E i \in 0..Len(SoFar) : /\ IsPrefix(Query, From(SoFar, i))
                                              /\ fed = SubSeq(SoFar, 1, i) \o From(SoFar, i + 4)
      /\ ~answered => fed \o held = SoFar
      /\ ~open => held = <<>>
      /\ ShortSettings /\ open /\ due # <<>> =>
           answered = t.answered /\ (reply # <<>>) = t.watches /\ fed = t.on /\ held = t.held
=============================================================================
