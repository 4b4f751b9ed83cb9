----------------------------- MODULE PtyProofs ------------------------------
(***************************************************************************)
(* Proofs about the two halves of a Pty outside Frame mode's loop: PtyRaw,   *)
(* on each of the systems, for every amount of output and of resumes, and    *)
(* PtyResize, for every set of callers and of sizes.                         *)
(*                                                                          *)
(* A pause loses nothing.  The invariant of PtyRaw follows the output from   *)
(* the pty to the sink (Flow), says what the held slave and the close are    *)
(* for (Held), why a reader that waits at the exit has been woken            *)
(* (Released), and what the reader's end tells the pump (AtTheEnd).          *)
(*                                                                          *)
(* The sizes agree.  In PtyResize a call in progress owns the session's      *)
(* mutex (Exclusive), so what it tells is what the engine holds, and nothing *)
(* has set the flag since the call cleared it (Telling).  A screen change    *)
(* the child has not been notified of leaves a mark, in the flag, in what a  *)
(* call swapped out of it or in a pseudo-terminal of another size, as long   *)
(* as there is a pseudo-terminal (Marked), and each of those marks stands    *)
(* for such a change (Justified).                                            *)
(***************************************************************************)
EXTENDS PtyRaw, PtyResize, SequenceTheorems, TLAPS

Chunks   == 1..(MaxOut + 1)
UpTo(n)  == [i \in 1..n |-> i]

\* The pump before it closes the pseudo-terminal, and once the drain is on.
Early == ppc \in {"run", "release", "close"}
Late  == ppc \in {"drain", "end", "exit", "done"}

Control ==
    /\ ppc # "run" <=> child = "reaped"
    /\ child \in {"exited", "reaped"} => "child" \notin slave
    /\ master <=> Early
    /\ ppc = "closing" => os = "windows"
    /\ wrote = MaxOut + 1 => ppc \in {"idle", "drain", "end", "exit", "done"}
    /\ ended <=> ppc \in {"exit", "done"}
    /\ exits = 1 <=> ppc = "done"

\* macOS: this process holds a slave until the drain, and what was freed with
\* nobody else on the pty was the last.
Held ==
    /\ late => Late
    /\ os = "macos" /\ ~Late => "us" \in slave
    /\ os = "macos" /\ Late /\ ~late => slave = {}

\* From the release on no reader waits that has not been woken.
Released ==
    /\ ppc \notin {"run", "release"} => draining
    /\ draining /\ rpc = "wait" => woken

\* The output is what the sink was handed, what the reader has and what is buffered.
Flow ==
    /\ rpc # "feed" => rbuf = << >>
    /\ ~late => out \o rbuf \o pipe = UpTo(wrote)

\* No more output can come.
Quiet == IF os = "windows" THEN ~Early /\ ppc # "closing" ELSE slave = {}

\* The pump leaves the drain for a reader that has seen the end, or it was late.
AtTheEnd ==
    /\ eof <=> rpc = "done"
    /\ ppc \in {"end", "exit", "done"} => eof \/ late
    /\ rpc \in {"eof", "done"} /\ ~late => pipe = << >> /\ Quiet

Inv == TypeOK /\ Control /\ Held /\ Released /\ Flow /\ AtTheEnd

-----------------------------------------------------------------------------
(* Sequences. *)

LEMMA NextChunk ==
    ASSUME NEW n \in Nat
    PROVE  Append(UpTo(n), n + 1) = UpTo(n + 1)
  <1>1. UpTo(n) \in Seq(Nat) /\ Len(UpTo(n)) = n
    BY DEF UpTo
  <1> DEFINE t == Append(UpTo(n), n + 1)
  <1>2. /\ t \in Seq(Nat) /\ Len(t) = n + 1
        /\ \A i \in 1..n : t[i] = UpTo(n)[i]
        /\ t[n + 1] = n + 1
    BY <1>1, AppendProperties
  <1>3. UpTo(n + 1) \in Seq(Nat) /\ Len(UpTo(n + 1)) = n + 1
    BY DEF UpTo
  <1> HIDE DEF t
  <1>4. \A i \in 1..Len(t) : t[i] = UpTo(n + 1)[i]
    BY <1>2 DEF UpTo
  <1>5. t = UpTo(n + 1)
    BY <1>2, <1>3, <1>4, SeqEqual
  <1> QED
    BY <1>5 DEF t

\* A chunk that joins what is buffered joins the output.
LEMMA Joins ==
    ASSUME NEW S, NEW a \in Seq(S), NEW b \in Seq(S), NEW c \in Seq(S), NEW x \in S
    PROVE  a \o b \o Append(c, x) = Append(a \o b \o c, x)
  <1>1. a \o b \in Seq(S)
    BY ConcatProperties
  <1> DEFINE d == a \o b
  <1> HIDE DEF d
  <1>2. d \in Seq(S) /\ d \o c \in Seq(S) /\ <<x>> \in Seq(S)
    BY <1>1, ConcatProperties DEF d
  <1>3. Append(c, x) = c \o <<x>> /\ Append(d \o c, x) = d \o c \o <<x>>
    BY <1>2, AppendIsConcat
  <1>4. d \o (c \o <<x>>) = d \o c \o <<x>>
    BY <1>2, ConcatAssociative
  <1> QED
    BY <1>3, <1>4 DEF d

\* The reader takes the first of what is buffered.
LEMMA Takes ==
    ASSUME NEW S, NEW a \in Seq(S), NEW c \in Seq(S), c # << >>
    PROVE  /\ <<Head(c)>> \in Seq(S) /\ Tail(c) \in Seq(S)
           /\ a \o <<Head(c)>> \o Tail(c) = a \o << >> \o c
  <1>1. Head(c) \in S /\ Tail(c) \in Seq(S) /\ <<Head(c)>> \o Tail(c) = c
    BY HeadTailProperties
  <1>2. <<Head(c)>> \in Seq(S)
    BY <1>1
  <1>3. a \o <<Head(c)>> \o Tail(c) = a \o (<<Head(c)>> \o Tail(c))
    BY <1>1, <1>2, ConcatAssociative
  <1>4. a \o << >> = a
    BY ConcatEmptySeq
  <1> QED
    BY <1>1, <1>2, <1>3, <1>4
-----------------------------------------------------------------------------
(* Types: the flags, the places, and what holds output. *)

Flags ==
    /\ killed \in BOOLEAN /\ master \in BOOLEAN /\ late \in BOOLEAN
    /\ paused \in BOOLEAN /\ draining \in BOOLEAN /\ ended \in BOOLEAN
    /\ woken \in BOOLEAN /\ resuming \in BOOLEAN /\ eof \in BOOLEAN

Places ==
    /\ os \in Os /\ child \in {"running", "exiting", "exited", "reaped"}
    /\ slave \subseteq {"child", "grandchild", "us"}
    /\ rpc \in {"read", "feed", "wait", "eof", "done"}
    /\ ppc \in {"run", "release", "close", "closing", "idle", "drain", "end", "exit", "done"}
    /\ wrote \in 0..(MaxOut + 1) /\ resumes \in 0..MaxResumes /\ exits \in {0, 1}

Buffers == pipe \in Seq(Chunks) /\ out \in Seq(Chunks) /\ rbuf \in Seq(Chunks)

LEMMA Types == TypeOK <=> Flags /\ Places /\ Buffers
  BY DEF TypeOK, Flags, Places, Buffers, Chunks

LEMMA InitInv == Init => Inv
  <1> SUFFICES ASSUME Init PROVE Inv
    OBVIOUS
  <1>1. << >> \in Seq(Chunks) /\ << >> \o << >> = << >>
    BY EmptySeq, ConcatEmptySeq
  <1>2. TypeOK
    <2>1. Flags
      BY DEF Init, Flags
    <2>2. Places
      BY RawAssumption DEF Init, Places, HeldSlave, RawAssumption
    <2>3. Buffers
      BY <1>1 DEF Init, Buffers
    <2> QED
      BY <2>1, <2>2, <2>3, Types
  <1>3. Control /\ Held /\ Released /\ AtTheEnd
    BY RawAssumption DEF Init, Control, Held, Released, AtTheEnd, Early, Late, HeldSlave,
                         RawAssumption
  <1>4. UpTo(0) = << >>
    BY DEF UpTo
  <1>5. Flow
    BY <1>1, <1>4 DEF Init, Flow
  <1> QED
    BY <1>2, <1>3, <1>5 DEF Inv

LEMMA FlagsStep == Flags /\ [Next]_vars => Flags'
  <1> SUFFICES ASSUME Flags, [Next]_vars PROVE Flags'
    OBVIOUS
  <1> USE DEF Flags, osVars, rawVars, readerVars, callVars
  <1>1. CASE ChildWrite \/ ChildExit \/ GrandchildExit
    BY <1>1 DEF ChildWrite, ChildExit, GrandchildExit
  <1>2. CASE Reader
    <2>1. CASE ReaderRead \/ ReaderEof \/ ReaderRefused \/ ReaderWakes \/ ReaderDone
      BY <2>1 DEF ReaderRead, ReaderEof, ReaderRefused, ReaderWakes, ReaderDone
    <2>2. CASE ReaderFeed
      BY <2>2 DEF ReaderFeed
    <2> QED
      BY <1>2, <2>1, <2>2 DEF Reader
  <1>3. CASE PumpSeesExit \/ PumpRelease \/ PumpClose \/ PumpClosed
    BY <1>3 DEF PumpSeesExit, PumpRelease, PumpClose, PumpClosed
  <1>4. CASE PumpFreesSlave \/ PumpDrained \/ PumpDrainTimeout
    BY <1>4 DEF PumpFreesSlave, PumpDrained, PumpDrainTimeout
  <1>5. CASE PumpEnd \/ PumpExit
    BY <1>5 DEF PumpEnd, PumpExit
  <1>6. CASE Resume \/ ResumeNotifies \/ Terminate
    BY <1>6 DEF Resume, ResumeNotifies, Terminate
  <1>7. CASE UNCHANGED vars
    BY <1>7 DEF vars
  <1> QED
    BY <1>1, <1>2, <1>3, <1>4, <1>5, <1>6, <1>7 DEF Next, Pump

LEMMA PlacesStep == Places /\ Control /\ [Next]_vars => Places'
  <1> SUFFICES ASSUME Places, Control, [Next]_vars PROVE Places'
    OBVIOUS
  <1> USE DEF Places, osVars, rawVars, readerVars, callVars
  <1>0. MaxOut \in Nat /\ MaxResumes \in Nat
    BY RawAssumption DEF RawAssumption
  <1>1. CASE ChildWrite
    BY <1>0, <1>1 DEF ChildWrite
  <1>2. CASE ChildExit \/ GrandchildExit
    BY <1>2 DEF ChildExit, GrandchildExit, Close
  <1>3. CASE Reader
    <2>1. CASE ReaderRead \/ ReaderEof \/ ReaderRefused \/ ReaderDone
      BY <2>1 DEF ReaderRead, ReaderEof, ReaderRefused, ReaderDone
    <2>2. CASE ReaderFeed \/ ReaderWakes
      BY <2>2 DEF ReaderFeed, ReaderWakes
    <2> QED
      BY <1>3, <2>1, <2>2 DEF Reader
  <1>4. CASE PumpSeesExit \/ PumpRelease \/ PumpClose
    BY <1>4 DEF PumpSeesExit, PumpRelease, PumpClose
  <1>5. CASE PumpClosed
    BY <1>0, <1>5 DEF PumpClosed, Control
  <1>6. CASE PumpFreesSlave \/ PumpDrained \/ PumpDrainTimeout \/ PumpEnd
    BY <1>6 DEF PumpFreesSlave, Close, PumpDrained, PumpDrainTimeout, PumpEnd
  <1>7. CASE PumpExit
    BY <1>7 DEF PumpExit, Control
  <1>8. CASE Resume \/ ResumeNotifies \/ Terminate
    <2>1. CASE Resume
      BY <1>0, <2>1 DEF Resume
    <2>2. CASE ResumeNotifies \/ Terminate
      BY <2>2 DEF ResumeNotifies, Terminate
    <2> QED
      BY <1>8, <2>1, <2>2
  <1>9. CASE UNCHANGED vars
    BY <1>9 DEF vars
  <1> QED
    BY <1>1, <1>2, <1>3, <1>4, <1>5, <1>6, <1>7, <1>8, <1>9 DEF Next, Pump

LEMMA BuffersStep == Places /\ Control /\ Buffers /\ [Next]_vars => Buffers'
  <1> SUFFICES ASSUME Places, Control, Buffers, [Next]_vars PROVE Buffers'
    OBVIOUS
  <1> USE DEF Buffers, osVars, rawVars, readerVars, callVars
  <1>0. << >> \in Seq(Chunks) /\ MaxOut \in Nat /\ wrote \in 0..(MaxOut + 1)
    BY EmptySeq, RawAssumption DEF RawAssumption, Places
  <1>1. CASE ChildWrite \/ PumpClosed
    <2>1. wrote + 1 \in Chunks /\ pipe' = Append(pipe, wrote + 1) /\ UNCHANGED <<out, rbuf>>
      BY <1>0, <1>1 DEF ChildWrite, PumpClosed, Control, Chunks
    <2> QED
      BY <2>1, AppendProperties
  <1>2. CASE ChildExit \/ GrandchildExit \/ PumpFreesSlave
    BY <1>0, <1>2 DEF ChildExit, GrandchildExit, PumpFreesSlave, Close
  <1>3. CASE ReaderRead
    BY <1>3, Takes DEF ReaderRead
  <1>4. CASE ReaderFeed
    <2>1. out \o rbuf \in Seq(Chunks)
      BY ConcatProperties
    <2> QED
      BY <1>0, <1>4, <2>1 DEF ReaderFeed
  <1>5. CASE ReaderEof \/ ReaderRefused \/ ReaderWakes \/ ReaderDone
    BY <1>0, <1>5 DEF ReaderEof, ReaderRefused, ReaderWakes, ReaderDone
  <1>6. CASE PumpSeesExit \/ PumpRelease \/ PumpClose \/ PumpDrained
    BY <1>6 DEF PumpSeesExit, PumpRelease, PumpClose, PumpDrained
  <1>7. CASE PumpDrainTimeout \/ PumpEnd \/ PumpExit
    BY <1>7 DEF PumpDrainTimeout, PumpEnd, PumpExit
  <1>8. CASE Resume \/ ResumeNotifies \/ Terminate
    BY <1>8 DEF Resume, ResumeNotifies, Terminate
  <1>9. CASE UNCHANGED vars
    BY <1>9 DEF vars
  <1> QED
    BY <1>1, <1>2, <1>3, <1>4, <1>5, <1>6, <1>7, <1>8, <1>9 DEF Next, Reader, Pump

LEMMA TypeStep == TypeOK /\ Control /\ [Next]_vars => TypeOK'
  <1>1. TypeOK' <=> Flags' /\ Places' /\ Buffers'
    BY DEF TypeOK, Flags, Places, Buffers, Chunks
  <1> QED
    BY <1>1, Types, FlagsStep, PlacesStep, BuffersStep

-----------------------------------------------------------------------------
(* Steps. *)

LEMMA ControlStep == TypeOK /\ Control /\ [Next]_vars => Control'
  <1> SUFFICES ASSUME TypeOK, Control, [Next]_vars PROVE Control'
    OBVIOUS
  <1> USE DEF Control, Early, osVars, rawVars, readerVars, callVars
  <1>0. MaxOut \in Nat
    BY RawAssumption DEF RawAssumption
  <1>1. CASE ChildWrite
    BY <1>0, <1>1 DEF ChildWrite, TypeOK
  <1>2. CASE ChildExit \/ GrandchildExit
    BY <1>2 DEF ChildExit, GrandchildExit, Close
  <1>3. CASE Reader
    BY <1>3 DEF Reader, ReaderRead, ReaderEof, ReaderFeed, ReaderRefused, ReaderWakes, ReaderDone
  <1>4. CASE PumpSeesExit \/ PumpRelease \/ PumpClose
    BY <1>4 DEF PumpSeesExit, PumpRelease, PumpClose
  <1>5. CASE PumpClosed
    BY <1>0, <1>5 DEF PumpClosed, TypeOK
  <1>6. CASE PumpFreesSlave
    BY <1>6 DEF PumpFreesSlave, Close
  <1>7. CASE PumpDrained \/ PumpDrainTimeout \/ PumpEnd
    BY <1>7 DEF PumpDrained, PumpDrainTimeout, PumpEnd
  <1>8. CASE PumpExit
    BY <1>8 DEF PumpExit, TypeOK
  <1>9. CASE Resume \/ ResumeNotifies \/ Terminate
    BY <1>9 DEF Resume, ResumeNotifies, Terminate
  <1>10. CASE UNCHANGED vars
    BY <1>10 DEF vars
  <1> QED
    BY <1>1, <1>2, <1>3, <1>4, <1>5, <1>6, <1>7, <1>8, <1>9, <1>10 DEF Next, Pump

LEMMA HeldStep == TypeOK /\ Control /\ Held /\ [Next]_vars => Held'
  <1> SUFFICES ASSUME TypeOK, Control, Held, [Next]_vars PROVE Held'
    OBVIOUS
  <1> USE DEF Held, Late, osVars, rawVars, readerVars, callVars
  <1>1. CASE ChildWrite
    BY <1>1 DEF ChildWrite
  <1>2. CASE ChildExit \/ GrandchildExit
    BY <1>2 DEF ChildExit, GrandchildExit, Close
  <1>3. CASE Reader
    BY <1>3 DEF Reader, ReaderRead, ReaderEof, ReaderFeed, ReaderRefused, ReaderWakes, ReaderDone
  <1>4. CASE PumpSeesExit \/ PumpRelease \/ PumpClose \/ PumpClosed
    BY <1>4 DEF PumpSeesExit, PumpRelease, PumpClose, PumpClosed
  <1>5. CASE PumpFreesSlave
    <2>1. os = "macos" /\ ~late' => slave' = {}
      BY <1>5 DEF PumpFreesSlave, Close, Control, TypeOK
    <2> QED
      BY <1>5, <2>1 DEF PumpFreesSlave, Close
  <1>6. CASE PumpDrained \/ PumpDrainTimeout \/ PumpEnd \/ PumpExit
    BY <1>6 DEF PumpDrained, PumpDrainTimeout, PumpEnd, PumpExit
  <1>7. CASE Resume \/ ResumeNotifies \/ Terminate
    BY <1>7 DEF Resume, ResumeNotifies, Terminate
  <1>8. CASE UNCHANGED vars
    BY <1>8 DEF vars
  <1> QED
    BY <1>1, <1>2, <1>3, <1>4, <1>5, <1>6, <1>7, <1>8 DEF Next, Pump

LEMMA ReleasedStep == TypeOK /\ Released /\ [Next]_vars => Released'
  <1> SUFFICES ASSUME TypeOK, Released, [Next]_vars PROVE Released'
    OBVIOUS
  <1> USE DEF Released, osVars, rawVars, readerVars, callVars
  <1>1. CASE ChildWrite \/ ChildExit \/ GrandchildExit
    BY <1>1 DEF ChildWrite, ChildExit, GrandchildExit
  <1>2. CASE ReaderRead \/ ReaderEof \/ ReaderRefused \/ ReaderDone
    BY <1>2 DEF ReaderRead, ReaderEof, ReaderRefused, ReaderDone
  <1>3. CASE ReaderFeed
    BY <1>3 DEF ReaderFeed
  <1>4. CASE ReaderWakes
    BY <1>4 DEF ReaderWakes
  <1>5. CASE Pump
    BY <1>5 DEF Pump, PumpSeesExit, PumpRelease, PumpClose, PumpClosed, PumpFreesSlave, PumpDrained,
                PumpDrainTimeout, PumpEnd, PumpExit
  <1>6. CASE Resume \/ ResumeNotifies \/ Terminate
    BY <1>6 DEF Resume, ResumeNotifies, Terminate
  <1>7. CASE UNCHANGED vars
    BY <1>7 DEF vars
  <1> QED
    BY <1>1, <1>2, <1>3, <1>4, <1>5, <1>6, <1>7 DEF Next, Reader
LEMMA FlowStep == Inv /\ [Next]_vars => Flow'
  <1> SUFFICES ASSUME Inv, [Next]_vars PROVE Flow'
    OBVIOUS
  <1> USE DEF Flow, osVars, rawVars, readerVars, callVars
  <1>0. /\ TypeOK /\ Control /\ Held /\ Flow /\ AtTheEnd
        /\ pipe \in Seq(Chunks) /\ out \in Seq(Chunks) /\ rbuf \in Seq(Chunks)
        /\ << >> \in Seq(Chunks) /\ wrote \in Nat /\ MaxOut \in Nat
    BY EmptySeq, Types, RawAssumption DEF Inv, Buffers, Places, RawAssumption
  <1>1. CASE ChildWrite \/ PumpClosed
    <2>1. /\ wrote + 1 \in Chunks /\ pipe' = Append(pipe, wrote + 1) /\ wrote' = wrote + 1
          /\ UNCHANGED <<out, rbuf, rpc, late>>
      BY <1>0, <1>1 DEF ChildWrite, PumpClosed, Control, Chunks, TypeOK
    <2>2. out \o rbuf \o pipe' = Append(out \o rbuf \o pipe, wrote + 1)
      BY <1>0, <2>1, Joins
    <2>3. ~late => out \o rbuf \o pipe' = UpTo(wrote + 1)
      BY <1>0, <2>2, NextChunk
    <2> QED
      BY <1>0, <2>1, <2>3
  <1>2. CASE ChildExit \/ GrandchildExit
    <2>1. UNCHANGED <<out, rbuf, rpc, wrote, late, os, ppc>>
      BY <1>2 DEF ChildExit, GrandchildExit
    <2>2. ~late => pipe' = pipe
      <3>1. CASE ChildExit
        BY <1>0, <3>1 DEF ChildExit, Close, Held, Late, Control
      <3>2. CASE GrandchildExit
        BY <1>0, <3>2 DEF GrandchildExit, Close, Held, TypeOK
      <3> QED
        BY <1>2, <3>1, <3>2
    <2> QED
      BY <1>0, <2>1, <2>2
  <1>3. CASE ReaderRead
    <2>1. /\ rbuf = << >> /\ rbuf' = <<Head(pipe)>> /\ pipe' = Tail(pipe) /\ pipe # << >>
          /\ rpc' = "feed" /\ UNCHANGED <<out, wrote, late>>
      BY <1>0, <1>3 DEF ReaderRead
    <2>2. out \o rbuf' \o pipe' = out \o rbuf \o pipe
      BY <1>0, <2>1, Takes
    <2> QED
      BY <1>0, <2>1, <2>2
  <1>4. CASE ReaderFeed
    <2>1. /\ out' = out \o rbuf /\ rbuf' = << >> /\ UNCHANGED <<pipe, wrote, late>>
      BY <1>4 DEF ReaderFeed
    <2>2. out' \o rbuf' = out \o rbuf
      BY <1>0, <2>1, ConcatProperties, ConcatEmptySeq
    <2> QED
      BY <1>0, <2>1, <2>2
  <1>5. CASE ReaderRefused
    <2>1. late
      BY <1>0, <1>5 DEF ReaderRefused, Control, AtTheEnd
    <2> QED
      BY <1>5, <2>1 DEF ReaderRefused
  <1>6. CASE ReaderEof \/ ReaderWakes \/ ReaderDone
    BY <1>0, <1>6 DEF ReaderEof, ReaderWakes, ReaderDone
  <1>7. CASE PumpFreesSlave
    <2>1. UNCHANGED <<out, rbuf, rpc, wrote>> /\ ~late
      BY <1>0, <1>7 DEF PumpFreesSlave, Held, Late
    <2>2. ~late' => pipe' = pipe
      BY <1>0, <1>7 DEF PumpFreesSlave, Close, Held, Late
    <2> QED
      BY <1>0, <2>1, <2>2
  <1>8. CASE PumpSeesExit \/ PumpRelease \/ PumpClose \/ PumpDrained
    BY <1>0, <1>8 DEF PumpSeesExit, PumpRelease, PumpClose, PumpDrained
  <1>9. CASE PumpDrainTimeout \/ PumpEnd \/ PumpExit
    BY <1>0, <1>9 DEF PumpDrainTimeout, PumpEnd, PumpExit
  <1>10. CASE Resume \/ ResumeNotifies \/ Terminate
    BY <1>0, <1>10 DEF Resume, ResumeNotifies, Terminate
  <1>11. CASE UNCHANGED vars
    BY <1>0, <1>11 DEF vars
  <1> QED
    BY <1>1, <1>2, <1>3, <1>4, <1>5, <1>6, <1>7, <1>8, <1>9, <1>10, <1>11 DEF Next, Reader, Pump

LEMMA AtTheEndStep == Inv /\ [Next]_vars => AtTheEnd'
  <1> SUFFICES ASSUME Inv, [Next]_vars PROVE AtTheEnd'
    OBVIOUS
  <1> USE DEF AtTheEnd, Quiet, Early, osVars, rawVars, readerVars, callVars
  <1>0. TypeOK /\ Control /\ Held /\ Released /\ AtTheEnd /\ os \in {"linux", "macos", "windows"}
    BY RawAssumption DEF Inv, TypeOK, RawAssumption
  <1>1. CASE ChildWrite
    <2>1. rpc \in {"eof", "done"} => late
      BY <1>0, <1>1 DEF ChildWrite, Writers, Control
    <2> QED
      BY <1>0, <1>1, <2>1 DEF ChildWrite
  <1>2. CASE ChildExit \/ GrandchildExit
    <2>1. /\ slave' \subseteq slave /\ (pipe = << >> => pipe' = << >>)
          /\ UNCHANGED <<os, rpc, ppc, late, eof>>
      BY <1>2 DEF ChildExit, GrandchildExit, Close
    <2> QED
      BY <1>0, <2>1
  <1>3. CASE ReaderRead \/ ReaderFeed \/ ReaderWakes
    BY <1>0, <1>3 DEF ReaderRead, ReaderFeed, ReaderWakes
  <1>4. CASE ReaderEof
    BY <1>0, <1>4 DEF ReaderEof, AtEnd, Control
  <1>5. CASE ReaderRefused
    <2>1. late
      BY <1>0, <1>5 DEF ReaderRefused, Control
    <2> QED
      BY <1>0, <1>5, <2>1 DEF ReaderRefused
  <1>6. CASE ReaderDone
    BY <1>0, <1>6 DEF ReaderDone
  <1>7. CASE PumpSeesExit \/ PumpRelease
    BY <1>0, <1>7 DEF PumpSeesExit, PumpRelease
  <1>8. CASE PumpClose
    BY <1>0, <1>8 DEF PumpClose
  <1>9. CASE PumpClosed
    BY <1>0, <1>9 DEF PumpClosed, Control
  <1>10. CASE PumpFreesSlave
    <2>1. ~late /\ ppc = "idle" /\ ppc' = "drain"
      BY <1>0, <1>10 DEF PumpFreesSlave, Held, Late
    <2>2. slave' \subseteq slave /\ (pipe = << >> => pipe' = << >>) /\ UNCHANGED <<os, rpc, eof>>
      BY <1>10 DEF PumpFreesSlave, Close
    <2> QED
      BY <1>0, <2>1, <2>2
  <1>11. CASE PumpDrained
    BY <1>0, <1>11 DEF PumpDrained
  <1>12. CASE PumpDrainTimeout
    <2>1. late'
      <3>1. rpc = "read" /\ pipe = << >> /\ ~AtEnd
        BY <1>0, <1>12 DEF PumpDrainTimeout, Released
      <3>2. os # "windows" /\ slave # {}
        BY <1>0, <1>12, <3>1 DEF PumpDrainTimeout, AtEnd, Control
      <3> QED
        BY <1>12, <3>2 DEF PumpDrainTimeout
    <2> QED
      BY <1>0, <1>12, <2>1 DEF PumpDrainTimeout
  <1>13. CASE PumpEnd \/ PumpExit
    BY <1>0, <1>13 DEF PumpEnd, PumpExit
  <1>14. CASE Resume \/ ResumeNotifies \/ Terminate
    BY <1>0, <1>14 DEF Resume, ResumeNotifies, Terminate
  <1>15. CASE UNCHANGED vars
    BY <1>0, <1>15 DEF vars
  <1> QED
    BY <1>1, <1>2, <1>3, <1>4, <1>5, <1>6, <1>7, <1>8, <1>9, <1>10, <1>11, <1>12, <1>13, <1>14,
       <1>15 DEF Next, Reader, Pump

LEMMA InvStep == Inv /\ [Next]_vars => Inv'
  BY TypeStep, ControlStep, HeldStep, ReleasedStep, FlowStep, AtTheEndStep DEF Inv

\* The inductive invariant of a Raw session, on every system.
THEOREM InvHolds == Spec => []Inv
  BY InitInv, InvStep, PTL DEF Spec

-----------------------------------------------------------------------------
\* Flow::Pause: a pause loses nothing.  When nobody else holds the pty any more,
\* on_exit finds every chunk ever written handed to the sink, in order, and on a
\* ConPTY the last frame too.
THEOREM PauseIsLossless == Spec => []NothingLost
  <1>1. Inv => NothingLost
    <2> SUFFICES ASSUME Inv PROVE NothingLost
      OBVIOUS
    <2>0. TypeOK /\ Control /\ Flow /\ AtTheEnd
      BY DEF Inv
    <2>1. ASSUME exits = 1, ~late PROVE out = UpTo(wrote)
      <3>1. rpc = "done" /\ pipe = << >> /\ rbuf = << >>
        BY <2>0, <2>1 DEF Control, AtTheEnd, Flow
      <3>2. out \o rbuf \o pipe = out
        BY <2>0, <3>1, ConcatEmptySeq, Types DEF Buffers
      <3> QED
        BY <2>0, <2>1, <3>2 DEF Flow
    <2> QED
      BY <2>0, <2>1 DEF NothingLost, UpTo
  <1> QED
    BY <1>1, InvHolds, PTL

\* After on_exit nothing reaches the sink, and no exit is reported again.
THEOREM ExitIsLast == Spec => NothingAfterExit
  <1>1. Inv /\ [Next]_vars => [exits = 1 => UNCHANGED <<out, exits>>]_vars
    <2> SUFFICES ASSUME Inv, [Next]_vars, exits = 1 PROVE UNCHANGED <<out, exits>>
      OBVIOUS
    <2> USE DEF osVars, rawVars, readerVars, callVars
    <2>0. ppc = "done" /\ ended
      BY DEF Inv, Control
    <2>1. CASE ChildWrite \/ ChildExit \/ GrandchildExit
      BY <2>1 DEF ChildWrite, ChildExit, GrandchildExit
    <2>2. CASE Reader
      BY <2>0, <2>2 DEF Reader, ReaderRead, ReaderEof, ReaderFeed, ReaderRefused, ReaderWakes, ReaderDone
    <2>3. CASE Pump
      BY <2>0, <2>3 DEF Pump, PumpSeesExit, PumpRelease, PumpClose, PumpClosed, PumpFreesSlave,
                        PumpDrained, PumpDrainTimeout, PumpEnd, PumpExit
    <2>4. CASE Resume \/ ResumeNotifies \/ Terminate
      BY <2>4 DEF Resume, ResumeNotifies, Terminate
    <2>5. CASE UNCHANGED vars
      BY <2>5 DEF vars
    <2> QED
      BY <2>1, <2>2, <2>3, <2>4, <2>5 DEF Next
  <1> QED
    BY <1>1, InvHolds, PTL DEF Spec, NothingAfterExit

-----------------------------------------------------------------------------
(* The size protocol. *)

InCall(c) == call[c] # "idle"

\* A call past the start of tell_child owns the session's mutex, and nobody else does.
Exclusive == \A c \in Callers : InCall(c) <=> lock = c

\* What is told is what the engine holds; the flag is down once it is swapped.
Telling ==
    \A c \in Callers :
        /\ InCall(c) => telling[c] = engine
        /\ call[c] = "master" => ~moved

\* A call has taken the flag up and not yet told the child.
Taken == \E c \in Callers : call[c] = "master" /\ sawMoved[c]

\* A change not notified is marked somewhere; a pseudo-terminal of another size is
\* marked in the flag, except in a call.
Marked ==
    opened => /\ unseen => moved \/ Taken \/ pty # engine
              /\ lock = "none" /\ pty # engine => moved

\* A mark is only left by a change.
Justified == opened /\ (moved \/ Taken \/ pty # engine) => unseen

\* Outside a call the sizes differ, and the flag is up, only after a resize_screen.
Settled == SizesAgree /\ (moved => apart)

SizeInv == ResizeTypeOK /\ Exclusive /\ Telling /\ Marked /\ Justified /\ Settled

-----------------------------------------------------------------------------
\* A width the engine adopts is a number no smaller than the minimum.
LEMMA AdoptType ==
    ASSUME NEW n \in Sizes
    PROVE  Adopt(n) \in Nat /\ Adopt(n) >= MinSize
  BY ResizeAssumption DEF Adopt, ResizeAssumption

LEMMA SizeInitInv == ResizeInit => SizeInv
  <1> SUFFICES ASSUME ResizeInit PROVE SizeInv
    OBVIOUS
  <1> USE DEF ResizeInit
  <1>0. engine \in Nat /\ engine >= MinSize
    BY AdoptType
  <1>1. ResizeTypeOK
    <2>1. call \in [Callers -> {"idle", "swap", "master"}]
      OBVIOUS
    <2>2. telling \in [Callers -> Nat] /\ sawMoved \in [Callers -> BOOLEAN]
      BY <1>0
    <2>3. engine \in Nat /\ engine >= MinSize /\ pty \in Nat
      BY <1>0
    <2>4. kept \in 0..Buffered /\ calls \in 0..MaxCalls
      BY ResizeAssumption DEF ResizeAssumption
    <2> QED
      BY <2>1, <2>2, <2>3, <2>4 DEF ResizeTypeOK
  <1>2. Exclusive
    BY ResizeAssumption DEF Exclusive, InCall, ResizeAssumption
  <1>3. Telling
    BY DEF Telling, InCall
  <1>4. Marked /\ Justified
    BY DEF Marked, Justified, Taken
  <1>5. Settled
    BY DEF Settled, SizesAgree
  <1> QED
    BY <1>1, <1>2, <1>3, <1>4, <1>5 DEF SizeInv

\* TypeOK is kept by every step.
LEMMA SizeTypeStep == ResizeTypeOK /\ [ResizeNext]_resizeVars => ResizeTypeOK'
  <1> SUFFICES ASSUME ResizeTypeOK, [ResizeNext]_resizeVars PROVE ResizeTypeOK'
    OBVIOUS
  <1> USE ResizeAssumption DEF ResizeTypeOK, ResizeAssumption, tellVars, sizeVars, loopVars
  <1>1. ASSUME NEW c \in Callers, NEW n \in Sizes, ResizeScreen(c, n) PROVE ResizeTypeOK'
    BY <1>1, AdoptType DEF ResizeScreen, ResizeEngine
  <1>2. ASSUME NEW c \in Callers, NEW n \in Sizes, Resize(c, n) PROVE ResizeTypeOK'
    BY <1>2, AdoptType DEF Resize, ResizeEngine
  <1>3. ASSUME NEW c \in Callers, ResizeChild(c) PROVE ResizeTypeOK'
    BY <1>3 DEF ResizeChild
  <1>4. ASSUME NEW c \in Callers, TellSwap(c) PROVE ResizeTypeOK'
    BY <1>4 DEF TellSwap
  <1>5. ASSUME NEW c \in Callers, Tell(c) PROVE ResizeTypeOK'
    <2>1. pty' \in Nat
      BY <1>5 DEF Tell
    <2>2. (signals' = signals + 1 /\ unseen' = FALSE) \/ UNCHANGED <<signals, unseen>>
      BY <1>5, Zenon DEF Tell
    <2>4. signals' \in Nat
      BY <2>2
    <2>5. unseen' \in BOOLEAN
      BY <2>2, Zenon
    <2>3. call' \in [Callers -> {"idle", "swap", "master"}] /\ lock' \in {"none"} \cup Callers
      BY <1>5 DEF Tell, Return
    <2> QED
      BY <1>5, <2>1, <2>3, <2>4, <2>5 DEF Tell
  <1>6. ASSUME NEW c \in Callers, TellNobody(c) PROVE ResizeTypeOK'
    BY <1>6 DEF TellNobody, Return
  <1>7. CASE ShellWrites \/ ShellExits \/ ReaderReads \/ ReaderFeeds
    BY <1>7 DEF ShellWrites, ShellExits, ReaderReads, ReaderFeeds
  <1>8. CASE PumpSteps
    <2>1. CASE PumpHasClosed
      <3>1. kept' \in 0..Buffered
        BY <2>1 DEF PumpHasClosed
      <3> QED
        BY <2>1, <3>1 DEF PumpHasClosed
    <2>2. CASE PumpTake
      BY <2>2 DEF PumpTake
    <2>3. CASE PumpFindsExit \/ PumpDrain \/ PumpLast
      BY <2>3 DEF PumpFindsExit, PumpDrain, PumpLast
    <2> QED
      BY <1>8, <2>1, <2>2, <2>3 DEF PumpSteps
  <1>9. CASE UNCHANGED resizeVars
    BY <1>9 DEF resizeVars
  <1> QED
    BY <1>1, <1>2, <1>3, <1>4, <1>5, <1>6, <1>7, <1>8, <1>9 DEF ResizeNext

\* What the threads that call nothing leave alone.
LEMMA LoopSteps ==
    ASSUME ShellWrites \/ ShellExits \/ ReaderReads \/ ReaderFeeds \/ PumpSteps \/ UNCHANGED resizeVars
    PROVE  /\ UNCHANGED <<lock, sizeVars, tellVars>>
           /\ opened' = opened \/ opened' = FALSE
  BY DEF ShellWrites, ShellExits, ReaderReads, ReaderFeeds, PumpSteps, PumpFindsExit, PumpTake, PumpHasClosed,
         PumpDrain, PumpLast, resizeVars, tellVars, sizeVars

\* A call takes the mutex when it starts and gives it back when it ends.
LEMMA ExclusiveStep == SizeInv /\ [ResizeNext]_resizeVars => Exclusive'
  <1> SUFFICES ASSUME SizeInv, [ResizeNext]_resizeVars PROVE Exclusive'
    OBVIOUS
  <1>0. ResizeTypeOK /\ Exclusive /\ "none" \notin Callers
    BY ResizeAssumption DEF SizeInv, ResizeAssumption
  <1> USE DEF ResizeTypeOK, Exclusive, InCall
  <1>1. ASSUME NEW c \in Callers, NEW n \in Sizes, ResizeScreen(c, n) PROVE Exclusive'
    BY <1>0, <1>1 DEF ResizeScreen
  <1>2. ASSUME NEW c \in Callers, NEW n \in Sizes, Resize(c, n) PROVE Exclusive'
    BY <1>0, <1>2 DEF Resize
  <1>3. ASSUME NEW c \in Callers, ResizeChild(c) PROVE Exclusive'
    BY <1>0, <1>3 DEF ResizeChild
  <1>4. ASSUME NEW c \in Callers, TellSwap(c) PROVE Exclusive'
    BY <1>0, <1>4 DEF TellSwap
  <1>5. ASSUME NEW c \in Callers, Tell(c) \/ TellNobody(c) PROVE Exclusive'
    BY <1>0, <1>5 DEF Tell, TellNobody, Return
  <1>6. CASE ShellWrites \/ ShellExits \/ ReaderReads \/ ReaderFeeds \/ PumpSteps \/ UNCHANGED resizeVars
    BY <1>0, <1>6, LoopSteps DEF tellVars
  <1> QED
    BY <1>1, <1>2, <1>3, <1>4, <1>5, <1>6 DEF ResizeNext

\* The engine's size and the flag are only written by a call that owns the mutex or
\* finds it free, so they stand still while another call tells.
LEMMA TellingStep == SizeInv /\ [ResizeNext]_resizeVars => Telling'
  <1> SUFFICES ASSUME SizeInv, [ResizeNext]_resizeVars PROVE Telling'
    OBVIOUS
  <1>0. ResizeTypeOK /\ Exclusive /\ Telling /\ "none" \notin Callers
    BY ResizeAssumption DEF SizeInv, ResizeAssumption
  <1> USE DEF ResizeTypeOK, Exclusive, Telling, InCall
  <1>1. ASSUME NEW c \in Callers, NEW n \in Sizes, ResizeScreen(c, n) PROVE Telling'
    BY <1>0, <1>1 DEF ResizeScreen, ResizeEngine
  <1>2. ASSUME NEW c \in Callers, NEW n \in Sizes, Resize(c, n) PROVE Telling'
    BY <1>0, <1>2, AdoptType DEF Resize, ResizeEngine
  <1>3. ASSUME NEW c \in Callers, ResizeChild(c) PROVE Telling'
    BY <1>0, <1>3 DEF ResizeChild, sizeVars
  <1>4. ASSUME NEW c \in Callers, TellSwap(c) PROVE Telling'
    BY <1>0, <1>4 DEF TellSwap
  <1>5. ASSUME NEW c \in Callers, Tell(c) \/ TellNobody(c) PROVE Telling'
    BY <1>0, <1>5 DEF Tell, TellNobody, Return, sizeVars
  <1>6. CASE ShellWrites \/ ShellExits \/ ReaderReads \/ ReaderFeeds \/ PumpSteps \/ UNCHANGED resizeVars
    BY <1>0, <1>6, LoopSteps DEF tellVars, sizeVars
  <1> QED
    BY <1>1, <1>2, <1>3, <1>4, <1>5, <1>6 DEF ResizeNext

\* The marks of a change and the change come and go together.
LEMMA MarkStep == SizeInv /\ [ResizeNext]_resizeVars => Marked' /\ Justified'
  <1> SUFFICES ASSUME SizeInv, [ResizeNext]_resizeVars PROVE Marked' /\ Justified'
    OBVIOUS
  <1>0. ResizeTypeOK /\ Exclusive /\ Telling /\ Marked /\ Justified /\ "none" \notin Callers
    BY ResizeAssumption DEF SizeInv, ResizeAssumption
  <1> USE DEF ResizeTypeOK, Exclusive, Telling, Marked, Justified, Taken, InCall
  <1>1. ASSUME NEW c \in Callers, NEW n \in Sizes, ResizeScreen(c, n) PROVE Marked' /\ Justified'
    BY <1>0, <1>1 DEF ResizeScreen, ResizeEngine
  <1>2. ASSUME NEW c \in Callers, NEW n \in Sizes, Resize(c, n) PROVE Marked' /\ Justified'
    BY <1>0, <1>2 DEF Resize, ResizeEngine
  <1>3. ASSUME NEW c \in Callers, ResizeChild(c) PROVE Marked' /\ Justified'
    BY <1>0, <1>3 DEF ResizeChild, sizeVars
  <1>4. ASSUME NEW c \in Callers, TellSwap(c) PROVE Marked' /\ Justified'
    BY <1>0, <1>4 DEF TellSwap
  <1>5. ASSUME NEW c \in Callers, Tell(c) PROVE Marked' /\ Justified'
    BY <1>0, <1>5 DEF Tell, Return, Notifies
  <1>6. ASSUME NEW c \in Callers, TellNobody(c) PROVE Marked' /\ Justified'
    <2>1. ~opened'
      BY <1>6, Zenon DEF TellNobody
    <2> QED
      BY <2>1, Zenon
  <1>7. CASE ShellWrites \/ ShellExits \/ ReaderReads \/ ReaderFeeds \/ PumpSteps \/ UNCHANGED resizeVars
    <2>1. /\ call' = call /\ sawMoved' = sawMoved /\ engine' = engine /\ pty' = pty
          /\ moved' = moved /\ unseen' = unseen /\ lock' = lock
          /\ opened' = opened \/ opened' = FALSE
      BY <1>7, LoopSteps DEF sizeVars, tellVars
    <2>2. CASE opened' = FALSE
      BY <2>2
    <2>3. CASE opened' = opened
      <3>1. Marked'
        BY <1>0, <2>1, <2>3, Zenon
      <3>2. Justified'
        BY <1>0, <2>1, <2>3, Zenon
      <3> QED
        BY <3>1, <3>2
    <2> QED
      BY <2>1, <2>2, <2>3, Zenon
  <1> QED
    BY <1>1, <1>2, <1>3, <1>4, <1>5, <1>6, <1>7 DEF ResizeNext

\* A call leaves the sizes as it tells them, and only resize_screen parts them.
LEMMA SettledStep == SizeInv /\ [ResizeNext]_resizeVars => Settled'
  <1> SUFFICES ASSUME SizeInv, [ResizeNext]_resizeVars PROVE Settled'
    OBVIOUS
  <1>0. ResizeTypeOK /\ Exclusive /\ Telling /\ Settled /\ "none" \notin Callers
    BY ResizeAssumption DEF SizeInv, ResizeAssumption
  <1> USE DEF ResizeTypeOK, Exclusive, Telling, Settled, SizesAgree, InCall
  <1>1. ASSUME NEW c \in Callers, NEW n \in Sizes, ResizeScreen(c, n) PROVE Settled'
    BY <1>1, Zenon DEF ResizeScreen
  <1>2. ASSUME NEW c \in Callers, NEW n \in Sizes, Resize(c, n) PROVE Settled'
    BY <1>0, <1>2 DEF Resize
  <1>3. ASSUME NEW c \in Callers, ResizeChild(c) PROVE Settled'
    <2>1. lock' = c /\ UNCHANGED <<moved, apart>>
      BY <1>3, Zenon DEF ResizeChild, sizeVars
    <2>2. c # "none"
      BY <1>0
    <2> QED
      BY <1>0, <2>1, <2>2, Zenon
  <1>4. ASSUME NEW c \in Callers, TellSwap(c) PROVE Settled'
    <2>1. ~moved' /\ lock' = c
      BY <1>0, <1>4, Zenon DEF TellSwap
    <2> QED
      BY <1>0, <2>1, Zenon
  <1>5. ASSUME NEW c \in Callers, Tell(c) PROVE Settled'
    <2>1. ~moved'
      BY <1>0, <1>5, Zenon DEF Tell
    <2>2. pty' = engine'
      BY <1>0, <1>5 DEF Tell
    <2> QED
      BY <2>1, <2>2, Zenon
  <1>6. ASSUME NEW c \in Callers, TellNobody(c) PROVE Settled'
    <2>1. ~opened' /\ UNCHANGED <<moved, apart>>
      BY <1>6, Zenon DEF TellNobody, sizeVars
    <2> QED
      BY <1>0, <2>1, Zenon
  <1>7. CASE ShellWrites \/ ShellExits \/ ReaderReads \/ ReaderFeeds \/ PumpSteps \/ UNCHANGED resizeVars
    <2>1. /\ lock' = lock /\ engine' = engine /\ pty' = pty
          /\ moved' = moved /\ apart' = apart
          /\ opened' = opened \/ opened' = FALSE
      BY <1>7, LoopSteps DEF sizeVars
    <2>2. moved' => apart'
      BY <1>0, <2>1, Zenon
    <2>3. CASE opened' = FALSE
      BY <2>2, <2>3, Zenon
    <2>4. CASE opened' = opened
      BY <1>0, <2>1, <2>2, <2>4, Zenon
    <2> QED
      BY <2>1, <2>3, <2>4, Zenon
  <1> QED
    BY <1>1, <1>2, <1>3, <1>4, <1>5, <1>6, <1>7 DEF ResizeNext

\* Together the parts are inductive.
LEMMA SizeInvStep == SizeInv /\ [ResizeNext]_resizeVars => SizeInv'
  BY SizeTypeStep, ExclusiveStep, TellingStep, MarkStep, SettledStep DEF SizeInv

THEOREM SizeInvHolds == ResizeSpec => []SizeInv
  BY SizeInitInv, SizeInvStep, PTL DEF ResizeSpec

-----------------------------------------------------------------------------
\* The size protocol is well typed, and the engine is never narrower than MIN_COLUMNS.
THEOREM TypeCorrect == ResizeSpec => []ResizeTypeOK
  <1>1. SizeInv => ResizeTypeOK
    BY DEF SizeInv
  <1> QED
    BY <1>1, SizeInvHolds, PTL

\* Whatever calls race, the engine and the child end at one size.
THEOREM AlwaysAgree == ResizeSpec => []SizesAgree
  <1>1. SizeInv => SizesAgree
    BY DEF SizeInv, Settled
  <1> QED
    BY <1>1, SizeInvHolds, PTL

\* A call that told the child leaves it no change it was not notified of.
THEOREM RedrawAsked == ResizeSpec => []RedrawIsAsked
  <1>1. SizeInv => RedrawIsAsked
    <2> SUFFICES ASSUME SizeInv, lock = "none", opened, ~apart PROVE ~unseen
      BY DEF RedrawIsAsked
    <2>1. ~moved
      BY DEF SizeInv, Settled
    <2>2. ~Taken
      BY ResizeAssumption DEF SizeInv, Exclusive, InCall, Taken, ResizeAssumption
    <2> QED
      BY <2>1, <2>2 DEF SizeInv, Marked
  <1> QED
    BY <1>1, SizeInvHolds, PTL

\* The child is told no size but the engine's, asked for or adopted, at the moment it
\* is told.
THEOREM OnlyAdoptedIsTold == ResizeSpec => ToldIsAdopted
  <1>1. SizeInv /\ [ResizeNext]_resizeVars => [pty' # pty => pty' = engine]_resizeVars
    <2> SUFFICES ASSUME SizeInv, ResizeNext, pty' # pty PROVE pty' = engine
      BY DEF resizeVars
    <2>1. PICK c \in Callers : Tell(c)
      BY LoopSteps DEF ResizeNext, ResizeScreen, Resize, ResizeChild, TellSwap, TellNobody, sizeVars
    <2> QED
      BY <2>1 DEF SizeInv, Telling, InCall, Tell
  <1> QED
    BY <1>1, SizeInvHolds, PTL DEF ResizeSpec, ToldIsAdopted

\* The child is signalled only for a change it was not notified of.
THEOREM NothingNeedless == ResizeSpec => NoNeedlessSignal
  <1>1. SizeInv /\ [ResizeNext]_resizeVars => [signals' # signals => unseen]_resizeVars
    <2> SUFFICES ASSUME SizeInv, ResizeNext, signals' # signals PROVE unseen
      BY DEF resizeVars
    <2>1. PICK c \in Callers : Tell(c)
      BY LoopSteps DEF ResizeNext, ResizeScreen, Resize, ResizeChild, TellSwap, TellNobody, sizeVars
    <2>2. opened /\ call[c] = "master" /\ telling[c] = engine /\ Notifies(c)
      BY <2>1 DEF Tell, SizeInv, Telling, InCall
    <2> QED
      BY <2>2 DEF SizeInv, Justified, Taken, Notifies
  <1> QED
    BY <1>1, SizeInvHolds, PTL DEF ResizeSpec, NoNeedlessSignal

\* With no call in the middle the child knows the size and has been asked for every
\* redraw.
THEOREM ToldInFull == ResizeSpec => []ChildIsTold
  <1>1. SizesAgree /\ RedrawIsAsked => ChildIsTold
    BY DEF ChildIsTold
  <1> QED
    BY <1>1, AlwaysAgree, RedrawAsked, PTL

\* It is told no size the engine never had, and signalled for nothing it knew.
THEOREM ToldNoMore == ResizeSpec => SignalsAreDue
  BY OnlyAdoptedIsTold, NothingNeedless DEF SignalsAreDue
=============================================================================
