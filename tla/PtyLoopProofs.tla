--------------------------- MODULE PtyLoopProofs ---------------------------
(***************************************************************************)
(* Proofs about PtyLoop, for every amount of output, of edits and of        *)
(* writes, and every set of queries.                                        *)
(*                                                                          *)
(* The invariant has five parts beside the types.  Control says where the   *)
(* pump is when it holds the child's mutex, what a kill that holds it has    *)
(* sent, when the session has ended and when the exit was reported.  Empty says which buffers a thread leaves    *)
(* empty behind it.  Delivered follows the events, Flow the output, through *)
(* every buffer between the two ends.  Drained says what is known of the    *)
(* output when the pump's wait for the reader is over.  What goes to the     *)
(* child, in the other direction, has an invariant of its own at the end.   *)
(***************************************************************************)
EXTENDS PtyLoop, FiniteSetTheorems, SequenceTheorems, TLAPS

\* The child's mutex is held by the pump from the reaping to the mark, or by a kill of a
\* child not marked; who else reaps it has signalled it; and the session ends with the
\* last pump.
Control ==
    /\ ppc = "mark" <=> childLock = "pump"
    /\ childLock = "kill" => ~exited /\ sent # "none"
    /\ child = "reaped" => exited \/ ppc = "mark" \/ sent # "none"
    /\ ppc \in {"lastEvents", "exit", "done"} <=> ended
    /\ exits = 1 <=> ppc = "done"

\* What a thread has in hand outside the steps that use it, and an ended session.
Empty ==
    /\ ppc \notin {"hand", "events", "lastEvents"} => batch = << >>
    /\ ended => events = << >>
    /\ rpc # "feed" => rbuf = << >>
    /\ rpc = "read" => ~tail
    /\ tail => rheld = << >>

Delivered == seen \o batch \o events = fed

\* s is the first chunks written, in order.
Counts(s) == \A i \in 1..Len(s) : s[i] = i

\* Until the session ends, what was fed and what waits on the way is what was
\* written; once the read loop is left, only what it decoded still waits.
Flow ==
    /\ Counts(fed)
    /\ ~ended /\ tail => Counts(fed \o rbuf)
    /\ ~ended /\ ~tail => /\ Counts(fed \o rbuf \o rheld \o pipe)
                          /\ Len(fed \o rbuf \o rheld \o pipe) = wrote

\* The pump leaves the drain with the reader's answer unless it ran out of time, and a
\* reader that left its loop at the end of the output left nothing behind.
Drained ==
    /\ rpc \in {"eof", "done"} => tail
    /\ eof <=> rpc = "done"
    /\ ppc \in {"last", "lastEvents", "exit", "done"} /\ ~timedOut
        => eof /\ (readError <=> exitError)
    /\ tail /\ ~readError /\ ~(ended /\ timedOut)
        => slave = {} /\ pipe = << >> /\ Len(fed \o rbuf) = wrote

Inv == TypeOK /\ Control /\ Empty /\ Delivered /\ Flow /\ Drained

-----------------------------------------------------------------------------
(* Sequences. *)

\* A sequence cut in two is its two parts.
LEMMA Cut ==
    ASSUME NEW S, NEW s \in Seq(S), NEW k \in 0..Len(s)
    PROVE  /\ SubSeq(s, 1, k) \in Seq(S) /\ SubSeq(s, k + 1, Len(s)) \in Seq(S)
           /\ SubSeq(s, 1, k) \o SubSeq(s, k + 1, Len(s)) = s
           /\ Len(SubSeq(s, 1, k)) = k
  <1>1. Len(s) \in Nat /\ \A i \in 1..Len(s) : s[i] \in S
    BY LenProperties, ElementOfSeq
  <1>2. SubSeq(s, 1, k) \in Seq(S) /\ Len(SubSeq(s, 1, k)) = k
    <2>1. \A i \in 1..k : s[i] \in S
      BY <1>1
    <2> QED
      BY <1>1, <2>1, SubSeqProperties
  <1>3. SubSeq(s, k + 1, Len(s)) \in Seq(S)
    <2>1. \A i \in (k + 1)..Len(s) : s[i] \in S
      BY <1>1
    <2> QED
      BY <1>1, <2>1, SubSeqProperties
  <1>4. SubSeq(s, 1, k) \o SubSeq(s, k + 1, Len(s)) = SubSeq(s, 1, Len(s))
    <2>1. 1 \in 1..(Len(s) + 1) /\ k \in (1 - 1)..Len(s) /\ Len(s) \in k..Len(s)
      BY <1>1
    <2> QED
      BY <2>1, ConcatAdjacentSubSeq, Zenon
  <1> QED
    BY <1>2, <1>3, <1>4, SubSeqFull

\* The first part of a sequence that counts counts too.
LEMMA CountsPrefix ==
    ASSUME NEW S, NEW s \in Seq(S), NEW t \in Seq(S), Counts(s \o t)
    PROVE  Counts(s)
  <1>1. Len(s) \in Nat /\ Len(t) \in Nat
    BY LenProperties
  <1>2. /\ Len(s \o t) = Len(s) + Len(t)
        /\ \A i \in 1..(Len(s) + Len(t)) : (s \o t)[i] = IF i <= Len(s) THEN s[i] ELSE t[i - Len(s)]
    BY ConcatProperties
  <1> QED
    BY <1>1, <1>2 DEF Counts

\* So does the sequence with its next number.
LEMMA CountsAppend ==
    ASSUME NEW S, NEW s \in Seq(S), Counts(s), Len(s) + 1 \in S
    PROVE  Counts(Append(s, Len(s) + 1))
  <1>1. Len(s) \in Nat
    BY LenProperties
  <1> DEFINE t == Append(s, Len(s) + 1)
  <1>2. /\ Len(t) = Len(s) + 1
        /\ \A i \in 1..Len(s) : t[i] = s[i]
        /\ t[Len(s) + 1] = Len(s) + 1
    BY AppendProperties
  <1> HIDE DEF t
  <1>3. Counts(t)
    BY <1>1, <1>2 DEF Counts
  <1> QED
    BY <1>3 DEF t

\* The replies a feed makes are numbered on from the last.
LEMMA FreshReplies ==
    ASSUME NEW S, NEW cs \in Seq(S), asked \in Nat
    PROVE  Asks(cs) \in Nat /\ [i \in 1..Asks(cs) |-> asked + i] \in Seq(Nat)
  <1>1. Len(cs) \in Nat
    BY LenProperties
  <1>2. IsFiniteSet({i \in 1..Len(cs) : cs[i] \in Queries})
    <2>1. IsFiniteSet(1..Len(cs))
      BY <1>1, FS_Interval
    <2> QED
      BY <2>1, FS_Subset
  <1>3. Asks(cs) \in Nat
    BY <1>2, FS_CardinalityType DEF Asks
  <1>4. [i \in 1..Asks(cs) |-> asked + i] \in [1..Asks(cs) -> Nat]
    BY <1>3
  <1> QED
    BY <1>3, <1>4, SeqDef

-----------------------------------------------------------------------------
(* Types: the flags, and what is not a flag. *)

Flags ==
    /\ ended \in BOOLEAN /\ sink \in BOOLEAN /\ pending \in BOOLEAN
    /\ tail \in BOOLEAN /\ eof \in BOOLEAN /\ readError \in BOOLEAN /\ exited \in BOOLEAN
    /\ timedOut \in BOOLEAN /\ exitError \in BOOLEAN /\ inputOpen \in BOOLEAN

Places ==
    /\ child \in {"running", "exited", "reaped"} /\ slave \subseteq {"child", "grandchild"}
    /\ lock \in {"none", "reader", "pump"} /\ childLock \in {"none", "pump", "kill"}
    /\ sent \in {"none", "hup", "kill"}
    /\ rpc \in ReaderPC /\ ppc \in PumpPC /\ wpc \in WriterPC
    /\ exits \in {0, 1} /\ writes \in 0..MaxWrites

Output ==
    /\ pipe \in Seq(Chunks) /\ wrote \in 0..MaxOut
    /\ fed \in Seq(Chunks) /\ events \in Seq(Chunks) /\ batch \in Seq(Chunks)
    /\ seen \in Seq(Chunks) /\ rbuf \in Seq(Chunks) /\ rheld \in Seq(Chunks)

Answers ==
    /\ rev \in Nat /\ shown \in Nat /\ asked \in Nat
    /\ replies \in Seq(Nat) /\ rhand \in Seq(Nat) /\ phand \in Seq(Nat)

LEMMA Types == TypeOK <=> Flags /\ Places /\ Output /\ Answers
  BY DEF TypeOK, Flags, Places, Output, Answers

LEMMA InitInv == Init => Inv
  <1> SUFFICES ASSUME Init PROVE Inv
    OBVIOUS
  <1> USE DEF Init
  <1>1. << >> \in Seq(Chunks) /\ << >> \in Seq(Nat) /\ << >> \o << >> = << >> /\ Len(<< >>) = 0
    BY EmptySeq, ConcatEmptySeq
  <1>2. Flags
    BY Zenon DEF Flags
  <1>3. Places
    BY LoopAssumption DEF Places, ReaderPC, PumpPC, WriterPC, LoopAssumption
  <1>4. Output /\ Answers
    BY <1>1, LoopAssumption DEF Output, Answers, LoopAssumption
  <1>5. Control /\ Empty
    BY DEF Control, Empty
  <1>6. Delivered
    BY <1>1 DEF Delivered
  <1>7. Flow
    BY <1>1 DEF Flow, Counts
  <1>8. Drained
    BY DEF Drained
  <1> QED
    BY <1>2, <1>3, <1>4, <1>5, <1>6, <1>7, <1>8, Types DEF Inv

\* A frame goes out or stays pending.
LEMMA FlushType ==
    ASSUME sink \in BOOLEAN, shown \in Nat, NEW pend \in BOOLEAN, NEW r \in Nat, Flush(pend, r)
    PROVE  pending' \in BOOLEAN /\ shown' \in Nat
  <1>1. CASE pend /\ sink
    BY <1>1 DEF Flush
  <1>2. CASE ~(pend /\ sink)
    BY <1>2 DEF Flush
  <1> QED
    BY <1>1, <1>2

\* One read and its decoding only move chunks.
LEMMA ReadMoves ==
    ASSUME TypeOK, ReaderRead
    PROVE  /\ rbuf' \in Seq(Chunks) /\ rheld' \in Seq(Chunks) /\ pipe' \in Seq(Chunks)
           /\ rbuf' \o rheld' \o pipe' = rheld \o pipe
  <1>0. rheld \in Seq(Chunks) /\ pipe \in Seq(Chunks)
    BY DEF TypeOK
  <1>1. PICK n \in 1..Len(pipe), held \in {0, 1} :
          LET data == rheld \o SubSeq(pipe, 1, n)
              cut  == Len(data) - held
          IN  /\ rbuf'  = SubSeq(data, 1, cut)
              /\ rheld' = SubSeq(data, cut + 1, Len(data))
              /\ pipe'  = SubSeq(pipe, n + 1, Len(pipe))
    BY DEF ReaderRead
  <1> DEFINE read == SubSeq(pipe, 1, n)
  <1> DEFINE data == rheld \o read
  <1>2. n \in 0..Len(pipe)
    OBVIOUS
  <1>3. read \in Seq(Chunks) /\ pipe' \in Seq(Chunks) /\ Len(read) = n /\ read \o pipe' = pipe
    BY <1>0, <1>1, <1>2, Cut
  <1>4. data \in Seq(Chunks) /\ Len(data) = Len(rheld) + n /\ Len(rheld) \in Nat
    BY <1>0, <1>3, ConcatProperties, LenProperties
  <1>5. Len(data) - held \in 0..Len(data)
    BY <1>4
  <1>6. rbuf' \in Seq(Chunks) /\ rheld' \in Seq(Chunks) /\ rbuf' \o rheld' = data
    <2> DEFINE cut == Len(data) - held
    <2>1. rbuf' = SubSeq(data, 1, cut) /\ rheld' = SubSeq(data, cut + 1, Len(data))
      BY <1>1
    <2>2. cut \in 0..Len(data)
      BY <1>5
    <2> HIDE DEF cut, data
    <2> QED
      BY <1>4, <2>1, <2>2, Cut
  <1>7. data \o pipe' = rheld \o (read \o pipe')
    <2> SUFFICES rheld \o read \o pipe' = rheld \o (read \o pipe')
      OBVIOUS
    <2>1. read \in Seq(Chunks) /\ pipe' \in Seq(Chunks)
      BY <1>3
    <2> HIDE DEF read
    <2> QED
      BY <1>0, <2>1
  <1> QED
    BY <1>3, <1>6, <1>7

LEMMA TypeReader == TypeOK /\ Reader => TypeOK'
  <1> SUFFICES ASSUME TypeOK, Reader PROVE TypeOK'
    OBVIOUS
  <1> USE DEF TypeOK, osVars, sessionVars, readerVars, pumpVars, inputVars, ReaderPC
  <1>0. << >> \in Seq(Chunks) /\ << >> \in Seq(Nat)
    BY EmptySeq
  <1>1. CASE ReaderRead
    <2>1. /\ rpc' = "feed"
          /\ UNCHANGED <<child, sent, slave, wrote, lock, sessionVars, tail, rhand, eof,
                         readError, pumpVars, inputVars>>
      BY <1>1 DEF ReaderRead
    <2> QED
      BY <1>1, <2>1, ReadMoves
  <1>2. CASE ReaderEof
    BY <1>0, <1>2 DEF ReaderEof, LeaveLoop
  <1>3. CASE ReaderFail
    BY <1>0, <1>3 DEF ReaderFail, LeaveLoop
  <1>4. CASE ReaderFeed
    <2>1. Asks(rbuf) \in Nat /\ [i \in 1..Asks(rbuf) |-> asked + i] \in Seq(Nat)
      BY FreshReplies
    <2>2. FeedAndDrain(rbuf, rhand')
      BY <1>4 DEF ReaderFeed
    <2>3. rhand' \in Seq(Nat) /\ asked' \in Nat
      <3>1. rhand' = replies \o [i \in 1..Asks(rbuf) |-> asked + i] /\ asked' = asked + Asks(rbuf)
        BY <2>2 DEF FeedAndDrain
      <3>2. replies \in Seq(Nat) /\ asked \in Nat
        OBVIOUS
      <3> HIDE DEF TypeOK
      <3> QED
        BY <2>1, <3>1, <3>2, ConcatProperties
    <2>4. fed' \in Seq(Chunks) /\ events' \in Seq(Chunks) /\ rev' \in Nat
      BY <2>2, ConcatProperties, LenProperties DEF FeedAndDrain
    <2>5. /\ replies' = << >> /\ pending' = TRUE
          /\ UNCHANGED <<ended, sink, shown>>
      BY <2>2 DEF FeedAndDrain
    <2>6. /\ rbuf' = << >> /\ rpc' = "hand" /\ lock' = "reader"
          /\ UNCHANGED <<osVars, tail, rheld, eof, readError, pumpVars, inputVars>>
      BY <1>4 DEF ReaderFeed
    <2> QED
      BY <1>0, <2>3, <2>4, <2>5, <2>6
  <1>5. CASE ReaderFeedsNothing
    BY <1>5 DEF ReaderFeedsNothing
  <1>6. CASE ReaderRefused
    <2>1. CASE tail
      BY <1>0, <1>6, <2>1, SMTT(30) DEF ReaderRefused
    <2>2. CASE ~tail
      BY <1>0, <1>6, <2>2, SMTT(30) DEF ReaderRefused, LeaveLoop
    <2> QED
      BY <2>1, <2>2
  <1>7. CASE ReaderHandOver
    BY <1>0, <1>7 DEF ReaderHandOver
  <1>8. CASE ReaderDone
    BY <1>8 DEF ReaderDone
  <1> QED
    BY <1>1, <1>2, <1>3, <1>4, <1>5, <1>6, <1>7, <1>8 DEF Reader

LEMMA TypePump == TypeOK /\ Control /\ Pump => TypeOK'
  <1> SUFFICES ASSUME TypeOK, Control, Pump PROVE TypeOK'
    OBVIOUS
  <1> USE DEF TypeOK, osVars, sessionVars, readerVars, pumpVars, inputVars, PumpPC
  <1>0. << >> \in Seq(Chunks) /\ << >> \in Seq(Nat)
    BY EmptySeq
  <1>1. CASE PumpDue
    BY <1>1 DEF PumpDue
  <1>2. CASE PumpNotDue
    BY <1>2 DEF PumpNotDue
  <1>3. CASE PumpPump
    <2>1. pending' \in BOOLEAN /\ shown' \in Nat
      BY <1>3, FlushType DEF PumpPump
    <2> QED
      BY <1>0, <1>3, <2>1 DEF PumpPump
  <1>4. CASE PumpHandOver
    BY <1>0, <1>4 DEF PumpHandOver
  <1>5. CASE PumpEvents
    <2>1. seen' \in Seq(Chunks)
      BY <1>5, ConcatProperties DEF PumpEvents
    <2> QED
      BY <1>0, <1>5, <2>1 DEF PumpEvents
  <1>6. CASE PumpPoll
    BY <1>6 DEF PumpPoll
  <1>7. CASE PumpMark
    BY <1>7 DEF PumpMark
  <1>8. CASE PumpClose
    <2>1. Flags'
      BY <1>8 DEF PumpClose, Flags
    <2>2. Places' /\ Output'
      BY <1>8 DEF PumpClose, Places, Output
    <2>3. Answers'
      BY <1>8 DEF PumpClose, Answers
    <2> QED
      BY <2>1, <2>2, <2>3, Zenon DEF Flags, Places, Output, Answers
  <1>9. CASE PumpDrained
    BY <1>9 DEF PumpDrained
  <1>10. CASE PumpDrainTimeout
    BY <1>10 DEF PumpDrainTimeout
  <1>11. CASE PumpLast
    <2>1. pending' \in BOOLEAN /\ shown' \in Nat
      BY <1>11, FlushType DEF PumpLast
    <2> QED
      BY <1>0, <1>11, <2>1 DEF PumpLast
  <1>12. CASE PumpLastEvents
    <2>1. seen' \in Seq(Chunks)
      BY <1>12, ConcatProperties DEF PumpLastEvents
    <2> QED
      BY <1>0, <1>12, <2>1 DEF PumpLastEvents
  <1>13. CASE PumpExit
    <2>1. exits' = 1
      BY <1>13 DEF PumpExit, Control
    <2> QED
      BY <1>13, <2>1 DEF PumpExit
  <1> QED
    BY <1>1, <1>2, <1>3, <1>4, <1>5, <1>6, <1>7, <1>8, <1>9, <1>10, <1>11, <1>12, <1>13 DEF Pump

LEMMA TypeStep == TypeOK /\ Control /\ [Next]_vars => TypeOK'
  <1> SUFFICES ASSUME TypeOK, Control, [Next]_vars PROVE TypeOK'
    OBVIOUS
  <1> USE DEF TypeOK, osVars, sessionVars, readerVars, pumpVars, inputVars
  <1>1. CASE ChildWrite
    <2>1. wrote + 1 \in Chunks /\ wrote' \in 0..MaxOut
      BY <1>1, LoopAssumption DEF ChildWrite, Chunks, LoopAssumption
    <2>2. pipe' \in Seq(Chunks)
      BY <1>1, <2>1, AppendProperties DEF ChildWrite
    <2> QED
      BY <1>1, <2>1, <2>2 DEF ChildWrite
  <1>2. CASE ChildExit
    BY <1>2 DEF ChildExit
  <1>3. CASE GrandchildExit
    BY <1>3 DEF GrandchildExit
  <1>4. CASE Reader
    BY <1>4, TypeReader
  <1>5. CASE Pump
    BY <1>5, TypePump
  <1>6. CASE WriterRecv
    BY <1>6 DEF WriterRecv, WriterPC
  <1>7. CASE WriterWrite
    BY <1>7 DEF WriterWrite, WriterPC
  <1>8. CASE WriterFail
    BY <1>8 DEF WriterFail, WriterPC
  <1>9. CASE WriterEnd
    BY <1>9 DEF WriterEnd, WriterPC
  <1>10. CASE Write
    BY <1>10, LoopAssumption DEF Write, LoopAssumption
  <1>11. ASSUME NEW reports \in BOOLEAN, Edit(reports) PROVE TypeOK'
    <2>1. rev' \in Nat /\ rev + 1 \in Nat /\ asked' \in Nat
      BY <1>11 DEF Edit
    <2>2. replies' \in Seq(Nat)
      <3>1. asked + 1 \in Nat
        OBVIOUS
      <3> QED
        BY <1>11, <3>1, AppendProperties DEF Edit
    <2>3. pending' \in BOOLEAN /\ shown' \in Nat
      <3>1. CASE ended
        <4>1. Flush(TRUE, rev + 1) /\ TRUE \in BOOLEAN
          BY <1>11, <3>1 DEF Edit
        <4> QED
          BY <2>1, <4>1, FlushType
      <3>2. CASE ~ended
        BY <1>11, <3>2 DEF Edit
      <3> QED
        BY <3>1, <3>2
    <2>4. UNCHANGED <<osVars, lock, ended, sink, fed, events, readerVars, pumpVars, inputVars>>
      BY <1>11 DEF Edit
    <2> QED
      BY <2>1, <2>2, <2>3, <2>4
  <1>12. CASE Subscribe
    <2>1. Flags'
      BY <1>12 DEF Subscribe, Flags
    <2>2. Places' /\ Output'
      BY <1>12 DEF Subscribe, Places, Output
    <2>3. Answers'
      BY <1>12 DEF Subscribe, Answers
    <2> QED
      BY <2>1, <2>2, <2>3, Zenon DEF Flags, Places, Output, Answers
  <1>13. CASE SendPending
    <2>1. pending' \in BOOLEAN /\ shown' \in Nat
      BY <1>13, FlushType DEF SendPending
    <2> QED
      BY <1>13, <2>1 DEF SendPending
  <1>14. CASE Terminate \/ Kill
    <2>1. CASE Terminate
      BY <2>1 DEF Terminate
    <2>2. CASE KillSeesExit
      BY <2>2 DEF KillSeesExit
    <2>3. CASE KillEscalates
      BY <2>3 DEF KillEscalates
    <2> QED
      BY <1>14, <2>1, <2>2, <2>3 DEF Kill
  <1>15. CASE UNCHANGED vars
    BY <1>15 DEF vars
  <1> QED
    BY <1>1, <1>2, <1>3, <1>4, <1>5, <1>6, <1>7, <1>8, <1>9, <1>10, <1>11, <1>12, <1>13, <1>14,
       <1>15 DEF Next
-----------------------------------------------------------------------------
(* What each thread leaves alone. *)

Outside ==
    \/ ChildExit \/ GrandchildExit
    \/ WriterRecv \/ WriterWrite \/ WriterFail \/ WriterEnd
    \/ Write \/ \E reports \in BOOLEAN : Edit(reports)
    \/ Subscribe \/ SendPending \/ Terminate \/ Kill

LEMMA NextCases == [Next]_vars => ChildWrite \/ Outside \/ Reader \/ Pump \/ UNCHANGED vars
  BY DEF Next, Outside

LEMMA ReaderFrame ==
    ASSUME Reader
    PROVE  UNCHANGED <<child, sent, wrote, ended, ppc, batch, exited, childLock, seen, exits,
                       exitError>>
  BY DEF Reader, ReaderRead, ReaderEof, ReaderFail, ReaderFeed, ReaderFeedsNothing, ReaderRefused,
     ReaderHandOver, ReaderDone, FeedAndDrain, osVars, sessionVars, pumpVars

LEMMA PumpFrame ==
    ASSUME Pump
    PROVE  UNCHANGED <<sent, pipe, wrote, fed, rpc, tail, rbuf, rheld>>
  BY DEF Pump, PumpDue, PumpNotDue, PumpPump, PumpHandOver, PumpEvents, PumpPoll, PumpMark,
     PumpClose, PumpDrained, PumpDrainTimeout, PumpLast, PumpLastEvents, PumpExit, osVars,
     sessionVars, readerVars

LEMMA OutsideFrame ==
    ASSUME ChildWrite \/ Outside \/ UNCHANGED vars
    PROVE  /\ UNCHANGED <<ended, fed, events, rpc, tail, rbuf, rheld, ppc, batch, exited, seen,
                          exits, exitError>>
           /\ \/ UNCHANGED <<sent, childLock>> /\ (child' = child \/ child' = "exited")
              \/ Terminate \/ Kill
  <1> USE DEF osVars, sessionVars, readerVars, pumpVars, inputVars
  <1>1. CASE ChildWrite
    BY <1>1 DEF ChildWrite
  <1>2. CASE Outside
    BY <1>2 DEF Outside, ChildExit, GrandchildExit, WriterRecv, WriterWrite, WriterFail, WriterEnd,
       Write, Edit, Subscribe, SendPending, Terminate, Kill, KillSeesExit, KillEscalates
  <1>3. CASE UNCHANGED vars
    BY <1>3 DEF vars
  <1> QED
    BY <1>1, <1>2, <1>3
LEMMA OutsideUnread ==
    ASSUME Outside \/ UNCHANGED vars
    PROVE  UNCHANGED <<ended, fed, tail, rbuf, rheld, pipe, wrote>>
  <1> USE DEF osVars, sessionVars, readerVars
  <1>1. CASE Outside
    BY <1>1 DEF Outside, ChildExit, GrandchildExit, WriterRecv, WriterWrite, WriterFail, WriterEnd,
       Write, Edit, Subscribe, SendPending, Terminate, Kill, KillSeesExit, KillEscalates
  <1>2. CASE UNCHANGED vars
    BY <1>2 DEF vars
  <1> QED
    BY <1>1, <1>2

LEMMA OutsideRest ==
    ASSUME Outside \/ UNCHANGED vars
    PROVE  /\ UNCHANGED <<rpc, eof, readError, ppc, timedOut, exitError>>
           /\ slave' \subseteq slave
  <1> USE DEF osVars, readerVars, pumpVars
  <1>1. CASE Outside
    BY <1>1 DEF Outside, ChildExit, GrandchildExit, WriterRecv, WriterWrite, WriterFail, WriterEnd,
       Write, Edit, Subscribe, SendPending, Terminate, Kill, KillSeesExit, KillEscalates
  <1>2. CASE UNCHANGED vars
    BY <1>2 DEF vars
  <1> QED
    BY <1>1, <1>2

-----------------------------------------------------------------------------
(* The invariant's parts. *)

\* The pump's place goes with what it holds and what it has done.
LEMMA ControlStep == TypeOK /\ Control /\ [Next]_vars => Control'
  <1> SUFFICES ASSUME TypeOK, Control, [Next]_vars PROVE Control'
    OBVIOUS
  <1>1. CASE ChildWrite \/ Outside \/ UNCHANGED vars
    <2>1. CASE UNCHANGED <<sent, childLock>> /\ (child' = child \/ child' = "exited")
      BY <1>1, <2>1, OutsideFrame DEF Control
    <2>2. CASE Terminate
      BY <1>1, <2>2, OutsideFrame DEF Control, Terminate
    <2>3. CASE Kill
      BY <1>1, <2>3, OutsideFrame DEF Control, Kill, KillSeesExit, KillEscalates
    <2> QED
      BY <1>1, <2>1, <2>2, <2>3, OutsideFrame
  <1>2. CASE Reader
    BY <1>2, ReaderFrame DEF Control
  <1>3. CASE Pump
    <2>0. exits \in {0, 1}
      BY DEF TypeOK
    <2> USE DEF Control, osVars, sessionVars, pumpVars
    <2>1. CASE PumpDue
      BY <2>1 DEF PumpDue
    <2>2. CASE PumpNotDue
      BY <2>2 DEF PumpNotDue
    <2>3. CASE PumpPump
      BY <2>3 DEF PumpPump
    <2>4. CASE PumpHandOver
      BY <2>4 DEF PumpHandOver
    <2>5. CASE PumpEvents
      BY <2>5 DEF PumpEvents
    <2>6. CASE PumpPoll
      BY <2>6 DEF PumpPoll
    <2>7. CASE PumpMark
      BY <2>7 DEF PumpMark
    <2>8. CASE PumpClose
      BY <2>8 DEF PumpClose
    <2>9. CASE PumpDrained
      BY <2>9 DEF PumpDrained
    <2>10. CASE PumpDrainTimeout
      BY <2>10 DEF PumpDrainTimeout
    <2>11. CASE PumpLast
      BY <2>11 DEF PumpLast
    <2>12. CASE PumpLastEvents
      BY <2>12 DEF PumpLastEvents
    <2>13. CASE PumpExit
      BY <2>0, <2>13 DEF PumpExit
    <2> QED
      BY <1>3, <2>1, <2>2, <2>3, <2>4, <2>5, <2>6, <2>7, <2>8, <2>9, <2>10, <2>11, <2>12, <2>13
         DEF Pump
  <1> QED
    BY <1>1, <1>2, <1>3, NextCases

\* Every thread empties what it has in hand before it goes on.
LEMMA EmptyStep == TypeOK /\ Control /\ Empty /\ [Next]_vars => Empty'
  <1> SUFFICES ASSUME TypeOK, Control, Empty, [Next]_vars PROVE Empty'
    OBVIOUS
  <1>1. CASE ChildWrite \/ Outside \/ UNCHANGED vars
    BY <1>1, OutsideFrame DEF Empty
  <1>2. CASE Reader
    <2> USE DEF Empty, sessionVars, readerVars, pumpVars
    <2>1. CASE ReaderRead
      BY <2>1 DEF ReaderRead
    <2>2. CASE ReaderEof
      BY <2>2 DEF ReaderEof, LeaveLoop
    <2>3. CASE ReaderFail
      BY <2>3 DEF ReaderFail, LeaveLoop
    <2>4. CASE ReaderFeed
      BY <2>4 DEF ReaderFeed, FeedAndDrain
    <2>5. CASE ReaderFeedsNothing
      BY <2>5 DEF ReaderFeedsNothing
    <2>6. CASE ReaderRefused
      BY <2>6 DEF ReaderRefused, LeaveLoop
    <2>7. CASE ReaderHandOver
      BY <2>7 DEF ReaderHandOver
    <2>8. CASE ReaderDone
      BY <2>8 DEF ReaderDone
    <2> QED
      BY <1>2, <2>1, <2>2, <2>3, <2>4, <2>5, <2>6, <2>7, <2>8 DEF Reader
  <1>3. CASE Pump
    <2> USE DEF Empty, Control, sessionVars, readerVars, pumpVars
    <2>1. CASE PumpDue
      BY <2>1 DEF PumpDue
    <2>2. CASE PumpNotDue
      BY <2>2 DEF PumpNotDue
    <2>3. CASE PumpPump
      BY <2>3 DEF PumpPump
    <2>4. CASE PumpHandOver
      BY <2>4 DEF PumpHandOver
    <2>5. CASE PumpEvents
      BY <2>5 DEF PumpEvents
    <2>6. CASE PumpPoll
      BY <2>6 DEF PumpPoll
    <2>7. CASE PumpMark
      BY <2>7 DEF PumpMark
    <2>8. CASE PumpClose
      BY <2>8 DEF PumpClose
    <2>9. CASE PumpDrained
      BY <2>9 DEF PumpDrained
    <2>10. CASE PumpDrainTimeout
      BY <2>10 DEF PumpDrainTimeout
    <2>11. CASE PumpLast
      BY <2>11 DEF PumpLast
    <2>12. CASE PumpLastEvents
      BY <2>12 DEF PumpLastEvents
    <2>13. CASE PumpExit
      BY <2>13 DEF PumpExit
    <2> QED
      BY <1>3, <2>1, <2>2, <2>3, <2>4, <2>5, <2>6, <2>7, <2>8, <2>9, <2>10, <2>11, <2>12, <2>13
         DEF Pump
  <1> QED
    BY <1>1, <1>2, <1>3, NextCases

\* The events of a feed join those that wait.
LEMMA EventsGroup ==
    ASSUME seen \in Seq(Chunks), batch \in Seq(Chunks), events \in Seq(Chunks), rbuf \in Seq(Chunks)
    PROVE  (seen \o batch \o events) \o rbuf = (seen \o batch) \o (events \o rbuf)
  OBVIOUS

\* Every event is passed on whole and in order.
LEMMA DeliveredStep == TypeOK /\ Empty /\ Delivered /\ [Next]_vars => Delivered'
  <1> SUFFICES ASSUME TypeOK, Empty, Delivered, [Next]_vars PROVE Delivered'
    OBVIOUS
  <1> USE DEF Delivered
  <1>0. /\ seen \in Seq(Chunks) /\ batch \in Seq(Chunks) /\ events \in Seq(Chunks)
        /\ rbuf \in Seq(Chunks) /\ << >> \in Seq(Chunks)
    BY EmptySeq DEF TypeOK
  <1>1. CASE ChildWrite \/ Outside \/ UNCHANGED vars
    BY <1>1, OutsideFrame
  <1>2. CASE ReaderFeed
    <2>1. events' = events \o rbuf /\ fed' = fed \o rbuf /\ seen' = seen /\ batch' = batch
      BY <1>2 DEF ReaderFeed, FeedAndDrain, pumpVars
    <2>2. seen \o batch \in Seq(Chunks)
      BY <1>0, ConcatProperties
    <2>3. (seen \o batch \o events) \o rbuf = (seen \o batch) \o (events \o rbuf)
      BY <1>0, EventsGroup
    <2> QED
      BY <2>1, <2>3
  <1>3. CASE Reader /\ ~ReaderFeed
    BY <1>3 DEF Reader, ReaderRead, ReaderEof, ReaderFail, ReaderFeedsNothing, ReaderRefused,
       ReaderHandOver, ReaderDone, sessionVars, pumpVars
  <1>4. CASE PumpPump \/ PumpLast
    <2>1. batch = << >> /\ batch' = events /\ events' = << >> /\ seen' = seen /\ fed' = fed
      BY <1>4 DEF PumpPump, PumpLast, Empty
    <2>2. seen \o << >> = seen /\ (seen \o events) \o << >> = seen \o events
      BY <1>0, ConcatProperties, ConcatEmptySeq
    <2> QED
      BY <2>1, <2>2
  <1>5. CASE PumpEvents \/ PumpLastEvents
    <2>1. seen' = seen \o batch /\ batch' = << >> /\ events' = events /\ fed' = fed
      BY <1>5 DEF PumpEvents, PumpLastEvents, sessionVars
    <2>2. (seen \o batch) \o << >> = seen \o batch
      BY <1>0, ConcatProperties, ConcatEmptySeq
    <2> QED
      BY <2>1, <2>2
  <1>6. CASE Pump /\ ~PumpPump /\ ~PumpLast /\ ~PumpEvents /\ ~PumpLastEvents
    BY <1>6 DEF Pump, PumpDue, PumpNotDue, PumpHandOver, PumpPoll, PumpMark, PumpClose, PumpDrained,
       PumpDrainTimeout, PumpExit, sessionVars
  <1> QED
    BY <1>1, <1>2, <1>3, <1>4, <1>5, <1>6, NextCases

\* What a read moved follows what was fed.
LEMMA DecodedGroup ==
    ASSUME fed \in Seq(Chunks), rbuf' \in Seq(Chunks), rheld' \in Seq(Chunks), pipe' \in Seq(Chunks)
    PROVE  fed \o rbuf' \o rheld' \o pipe' = fed \o (rbuf' \o rheld' \o pipe')
  BY SMTT(30)

LEMMA FlowStep == TypeOK /\ Empty /\ Flow /\ [Next]_vars => Flow'
  <1> SUFFICES ASSUME TypeOK, Empty, Flow, [Next]_vars PROVE Flow'
    OBVIOUS
  <1>0. /\ fed \in Seq(Chunks) /\ rbuf \in Seq(Chunks) /\ rheld \in Seq(Chunks)
        /\ pipe \in Seq(Chunks) /\ << >> \in Seq(Chunks)
        /\ fed \o rbuf \in Seq(Chunks) /\ fed \o rbuf \o rheld \in Seq(Chunks)
        /\ fed \o rbuf \o rheld \o pipe \in Seq(Chunks)
    BY EmptySeq, ConcatProperties DEF TypeOK
  <1>1. CASE ChildWrite
    <2>1. /\ UNCHANGED <<fed, rbuf, rheld, ended, tail>>
          /\ pipe' = Append(pipe, wrote + 1) /\ wrote' = wrote + 1
      BY <1>1 DEF ChildWrite, sessionVars, readerVars
    <2>2. wrote + 1 \in Chunks
      BY <1>1, LoopAssumption DEF ChildWrite, TypeOK, Chunks, LoopAssumption
    <2>3. CASE ~ended /\ ~tail
      <3> DEFINE flow == fed \o rbuf \o rheld
      <3>1. flow \in Seq(Chunks) /\ <<wrote + 1>> \in Seq(Chunks)
        BY <1>0, <2>2
      <3>2. flow \o Append(pipe, wrote + 1) = Append(flow \o pipe, wrote + 1)
        <4>1. flow \o (pipe \o <<wrote + 1>>) = (flow \o pipe) \o <<wrote + 1>>
          BY <1>0, <3>1
        <4>2. pipe \o <<wrote + 1>> = Append(pipe, wrote + 1)
          BY <1>0, <2>2, AppendIsConcat
        <4>3. (flow \o pipe) \o <<wrote + 1>> = Append(flow \o pipe, wrote + 1)
          BY <1>0, <2>2, AppendIsConcat
        <4> QED
          BY <4>1, <4>2, <4>3
      <3>3. Counts(flow \o pipe) /\ Len(flow \o pipe) = wrote
        BY <2>3 DEF Flow
      <3>4. Counts(Append(flow \o pipe, wrote + 1))
        BY <1>0, <2>2, <3>3, CountsAppend
      <3>5. Len(Append(flow \o pipe, wrote + 1)) = wrote + 1
        BY <1>0, <2>2, <3>3, AppendProperties
      <3> HIDE DEF flow
      <3>6. Counts(flow \o pipe') /\ Len(flow \o pipe') = wrote'
        BY <2>1, <3>2, <3>4, <3>5
      <3> USE DEF flow
      <3> QED
        BY <2>1, <2>3, <3>6 DEF Flow
    <2>4. CASE ended \/ tail
      BY <2>1, <2>4 DEF Flow
    <2> QED
      BY <2>3, <2>4
  <1>2. CASE ReaderRead
    <2>1. /\ rbuf' \o rheld' \o pipe' = rheld \o pipe
          /\ rbuf' \in Seq(Chunks) /\ rheld' \in Seq(Chunks) /\ pipe' \in Seq(Chunks)
      BY <1>2, ReadMoves
    <2>2. rbuf = << >> /\ ~tail /\ UNCHANGED <<fed, ended, tail, wrote>>
      BY <1>2 DEF ReaderRead, Empty, sessionVars
    <2>3. fed \o rbuf' \o rheld' \o pipe' = fed \o rbuf \o rheld \o pipe
      <3>1. fed \o rbuf = fed
        BY <1>0, <2>2, ConcatEmptySeq
      <3>2. fed \o rheld \o pipe = fed \o (rheld \o pipe)
        BY <1>0
      <3>3. fed \o rbuf' \o rheld' \o pipe' = fed \o (rbuf' \o rheld' \o pipe')
        BY <1>0, <2>1, DecodedGroup
      <3> QED
        BY <2>1, <3>1, <3>2, <3>3
    <2> QED
      BY <2>2, <2>3 DEF Flow
  <1>3. CASE ReaderEof \/ ReaderFail
    <2>1. /\ rbuf = << >> /\ ~tail /\ tail' /\ rbuf' = rheld
          /\ UNCHANGED <<fed, ended>>
      BY <1>3 DEF ReaderEof, ReaderFail, LeaveLoop, Empty, sessionVars
    <2>2. fed \o rbuf = fed
      BY <1>0, <2>1, ConcatEmptySeq
    <2>3. ~ended => Counts(fed \o rheld)
      <3>1. fed \o rheld \in Seq(Chunks) /\ (~ended => Counts(fed \o rheld \o pipe))
        BY <1>0, <2>1, <2>2 DEF Flow
      <3> QED
        BY <1>0, <3>1, CountsPrefix
    <2> QED
      BY <2>1, <2>3 DEF Flow
  <1>4. CASE ReaderFeed
    <2>1. /\ fed' = fed \o rbuf /\ rbuf' = << >> /\ ~ended
          /\ UNCHANGED <<rheld, pipe, wrote, ended, tail>>
      BY <1>4 DEF ReaderFeed, FeedAndDrain, osVars
    <2>2. fed' \o rbuf' = fed \o rbuf
      BY <1>0, <2>1, ConcatEmptySeq
    <2>3. Counts(fed \o rbuf)
      <3>1. CASE tail
        BY <2>1, <3>1 DEF Flow
      <3>2. CASE ~tail
        <4>1. Counts(fed \o rbuf \o rheld)
          BY <1>0, <2>1, <3>2, CountsPrefix DEF Flow
        <4> QED
          BY <1>0, <4>1, CountsPrefix
      <3> QED
        BY <3>1, <3>2
    <2> QED
      BY <2>1, <2>2, <2>3 DEF Flow
  <1>5. CASE ReaderRefused
    <2>1. ended /\ UNCHANGED <<fed, ended>>
      BY <1>5 DEF ReaderRefused, sessionVars
    <2> QED
      BY <2>1 DEF Flow
  <1>6. CASE ReaderFeedsNothing \/ ReaderHandOver \/ ReaderDone
    BY <1>6 DEF ReaderFeedsNothing, ReaderHandOver, ReaderDone, Flow, osVars, sessionVars
  <1>7. CASE Pump
    <2>1. UNCHANGED <<fed, pipe, wrote, tail, rbuf, rheld>>
      BY <1>7, PumpFrame
    <2>2. ended' = ended \/ ended' = TRUE
      BY <1>7 DEF Pump, PumpDue, PumpNotDue, PumpPump, PumpHandOver, PumpEvents, PumpPoll, PumpMark,
         PumpClose, PumpDrained, PumpDrainTimeout, PumpLast, PumpLastEvents, PumpExit, sessionVars
    <2> QED
      BY <2>1, <2>2 DEF Flow
  <1>8. CASE Outside \/ UNCHANGED vars
    <2>1. UNCHANGED <<fed, ended, tail, rbuf, rheld, pipe, wrote>>
      BY <1>8, OutsideUnread
    <2> QED
      BY <2>1 DEF Flow
  <1> QED
    BY <1>1, <1>2, <1>3, <1>4, <1>5, <1>6, <1>7, <1>8, NextCases DEF Reader

\* The reader's end, and what it leaves, is kept to the exit.
LEMMA DrainedStep == Inv /\ [Next]_vars => Drained'
  <1> SUFFICES ASSUME Inv, [Next]_vars PROVE Drained'
    OBVIOUS
  <1>0. TypeOK /\ Control /\ Empty /\ Flow /\ Drained
    BY DEF Inv
  <1>1. CASE ChildWrite
    <2>1. /\ slave # {}
          /\ UNCHANGED <<rpc, tail, eof, ppc, timedOut, readError, exitError, ended>>
      BY <1>1 DEF ChildWrite, sessionVars, readerVars, pumpVars
    <2> QED
      BY <1>0, <2>1 DEF Drained
  <1>2. CASE Outside \/ UNCHANGED vars
    BY <1>0, <1>2, OutsideUnread, OutsideRest DEF Drained
  <1>3. CASE Pump
    <2> USE DEF Drained, sessionVars, readerVars, osVars
    <2>1. CASE PumpDue
      BY <1>0, <2>1 DEF PumpDue
    <2>2. CASE PumpNotDue
      BY <1>0, <2>2 DEF PumpNotDue
    <2>3. CASE PumpPump
      BY <1>0, <2>3 DEF PumpPump
    <2>4. CASE PumpHandOver
      BY <1>0, <2>4 DEF PumpHandOver
    <2>5. CASE PumpEvents
      BY <1>0, <2>5 DEF PumpEvents
    <2>6. CASE PumpPoll
      BY <1>0, <2>6 DEF PumpPoll
    <2>7. CASE PumpMark
      BY <1>0, <2>7 DEF PumpMark
    <2>8. CASE PumpClose
      BY <1>0, <2>8 DEF PumpClose
    <2>9. CASE PumpDrained
      BY <1>0, <2>9 DEF PumpDrained
    <2>10. CASE PumpDrainTimeout
      BY <1>0, <2>10 DEF PumpDrainTimeout
    <2>11. CASE PumpLast
      BY <1>0, <2>11 DEF PumpLast
    <2>12. CASE PumpLastEvents
      BY <1>0, <2>12 DEF PumpLastEvents
    <2>13. CASE PumpExit
      BY <1>0, <2>13 DEF PumpExit
    <2> QED
      BY <1>3, <2>1, <2>2, <2>3, <2>4, <2>5, <2>6, <2>7, <2>8, <2>9, <2>10, <2>11, <2>12, <2>13
         DEF Pump
  <1>4. CASE Reader
    <2>0. /\ fed \in Seq(Chunks) /\ rbuf \in Seq(Chunks) /\ rheld \in Seq(Chunks)
          /\ << >> \in Seq(Chunks) /\ fed \o rbuf \in Seq(Chunks)
      BY <1>0, EmptySeq, ConcatProperties DEF TypeOK
    <2>1. ended /\ ~eof => timedOut
      BY <1>0 DEF Control, Drained
    <2>2. CASE ReaderRead
      BY <1>0, <2>2 DEF ReaderRead, Drained, Empty, sessionVars, pumpVars
    <2>3. CASE ReaderEof
      <3>1. /\ rbuf = << >> /\ pipe = << >> /\ slave = {} /\ rpc = "read" /\ ~tail
            /\ tail' /\ rpc' = "feed" /\ rbuf' = rheld
            /\ UNCHANGED <<osVars, fed, eof, readError, ppc, timedOut, exitError, ended>>
        BY <1>0, <2>3 DEF ReaderEof, LeaveLoop, Empty, sessionVars, pumpVars
      <3>2. ~ended => Len(fed \o rheld) = wrote
        <4>1. fed \o rbuf = fed /\ fed \o rheld \in Seq(Chunks)
          BY <2>0, <3>1, ConcatProperties, ConcatEmptySeq
        <4>2. fed \o rheld \o pipe = fed \o rheld
          BY <3>1, <4>1, ConcatEmptySeq
        <4> QED
          BY <1>0, <3>1, <4>1, <4>2 DEF Flow
      <3> QED
        BY <1>0, <2>1, <3>1, <3>2 DEF Drained, osVars
    <2>4. CASE ReaderFail
      BY <1>0, <2>4 DEF ReaderFail, LeaveLoop, Drained, sessionVars, pumpVars
    <2>5. CASE ReaderFeed
      <3>1. /\ fed' = fed \o rbuf /\ rbuf' = << >> /\ rpc = "feed" /\ rpc' = "hand"
            /\ UNCHANGED <<osVars, tail, eof, readError, ppc, timedOut, exitError, ended>>
        BY <2>5 DEF ReaderFeed, FeedAndDrain, pumpVars
      <3>2. fed' \o rbuf' = fed \o rbuf
        BY <2>0, <3>1, ConcatEmptySeq
      <3> QED
        BY <1>0, <3>1, <3>2 DEF Drained, osVars
    <2>6. CASE ReaderRefused
      <3>1. /\ ended /\ rpc = "feed" /\ rpc' \in {"eof", "feed"} /\ (rpc' = "eof" => tail')
            /\ UNCHANGED <<eof, readError, ppc, timedOut, exitError, ended>>
        BY <2>6 DEF ReaderRefused, LeaveLoop, sessionVars, pumpVars
      <3>2. timedOut
        BY <1>0, <2>1, <3>1 DEF Drained
      <3> QED
        BY <1>0, <3>1, <3>2 DEF Drained
    <2>7. CASE ReaderFeedsNothing
      BY <1>0, <2>7 DEF ReaderFeedsNothing, Drained, osVars, sessionVars, pumpVars
    <2>8. CASE ReaderHandOver
      BY <1>0, <2>8 DEF ReaderHandOver, Drained, osVars, sessionVars, pumpVars
    <2>9. CASE ReaderDone
      BY <1>0, <2>9 DEF ReaderDone, Drained, osVars, sessionVars, pumpVars
    <2> QED
      BY <1>4, <2>2, <2>3, <2>4, <2>5, <2>6, <2>7, <2>8, <2>9 DEF Reader
  <1> QED
    BY <1>1, <1>2, <1>3, <1>4, NextCases

LEMMA InvStep == Inv /\ [Next]_vars => Inv'
  BY TypeStep, ControlStep, EmptyStep, DeliveredStep, FlowStep, DrainedStep DEF Inv

THEOREM InvHolds == Spec => []Inv
  BY InitInv, InvStep, PTL DEF Spec

-----------------------------------------------------------------------------
\* The loop is well typed.
THEOREM TypeCorrect == Spec => []TypeOK
  <1>1. Inv => TypeOK
    BY DEF Inv
  <1> QED
    BY <1>1, InvHolds, PTL

\* However the reader, the pump and the consumer interleave, the engine is fed the
\* output in the order it was written, with nothing missing before what it was fed.
THEOREM InOrder == Spec => []OutputInOrder
  <1>1. Inv => OutputInOrder
    BY DEF Inv, Flow, Counts, OutputInOrder
  <1> QED
    BY <1>1, InvHolds, PTL

\* An exit reported in time and without a read error reports all that was written.
THEOREM AllRead == Spec => []OutputComplete
  <1>1. Inv => OutputComplete
    <2> SUFFICES ASSUME Inv, exits = 1, ~timedOut, ~exitError PROVE fed = CountUpTo(wrote)
      BY DEF OutputComplete
    <2>1. ppc = "done" /\ rpc = "done" /\ tail /\ ~readError /\ rbuf = << >>
      BY DEF Inv, Control, Drained, Empty
    <2>2. Len(fed \o rbuf) = wrote /\ fed \in Seq(Chunks) /\ Counts(fed)
      BY <2>1 DEF Inv, Drained, Flow, TypeOK
    <2>3. fed \o rbuf = fed
      BY <2>1, <2>2, ConcatEmptySeq
    <2>4. fed \in [1..wrote -> Chunks] /\ \A i \in 1..wrote : fed[i] = i
      BY <2>2, <2>3, LenProperties DEF Counts
    <2> QED
      BY <2>4 DEF CountUpTo
  <1> QED
    BY <1>1, InvHolds, PTL

\* on_event gets every event of what was fed, once and in order, and on_exit comes
\* after the last of them.
THEOREM AllDelivered == Spec => []EventsOnce
  <1>1. Inv => EventsOnce
    <2> SUFFICES ASSUME Inv PROVE EventsOnce
      OBVIOUS
    <2>1. seen \o batch \o events = fed /\ seen \in Seq(Chunks)
      BY DEF Inv, Delivered, TypeOK
    <2>2. exits = 1 => batch = << >> /\ events = << >>
      BY DEF Inv, Control, Empty
    <2>3. seen \o << >> = seen
      BY <2>1, ConcatEmptySeq
    <2> QED
      BY <2>1, <2>2, <2>3 DEF EventsOnce
  <1> QED
    BY <1>1, InvHolds, PTL

\* The child's mutex keeps every signal before the pump's mark, and before that only a
\* kill that has signalled the child reaps it.
THEOREM ReapedIsSafe == Spec => SignalsStop
  <1> DEFINE Signals ==
        /\ SendsHup \/ SendsKill => ~ExitFound
        /\ SendsHup /\ child = "reaped" => sent # "none"
  <1>1. Inv /\ [Next]_vars => [Signals]_vars
    <2> SUFFICES ASSUME Inv, Next, SendsHup \/ SendsKill
                 PROVE  ~ExitFound /\ (child = "reaped" => sent # "none")
      OBVIOUS
    <2>1. Terminate \/ Kill
      <3>1. childLock' # childLock /\ (childLock' = "kill" \/ childLock = "kill")
        BY DEF SendsHup, SendsKill
      <3>2. CASE Pump
        BY <3>1, <3>2 DEF Pump, PumpDue, PumpNotDue, PumpPump, PumpHandOver, PumpEvents, PumpPoll,
           PumpMark, PumpClose, PumpDrained, PumpDrainTimeout, PumpLast, PumpLastEvents, PumpExit,
           Inv, Control
      <3>3. CASE Reader
        BY <3>1, <3>3, ReaderFrame
      <3> QED
        BY <3>1, <3>2, <3>3, NextCases, OutsideFrame
    <2>2. CASE Terminate
      BY <2>2 DEF Terminate, Inv, Control, ExitFound
    <2>3. CASE Kill
      BY <2>3 DEF Kill, KillSeesExit, KillEscalates, Inv, Control, ExitFound
    <2> QED
      BY <2>1, <2>2, <2>3
  <1> QED
    BY <1>1, InvHolds, PTL DEF Spec, SignalsStop

\* on_exit is the last the consumer hears of the loop, and it hears it once.
THEOREM ExitIsLast == Spec => NothingAfterExit
  <1>1. Inv /\ [Next]_vars => [exits = 1 => UNCHANGED <<fed, seen, exits, exitError>>]_vars
    <2> SUFFICES ASSUME Inv, [Next]_vars, exits = 1 PROVE UNCHANGED <<fed, seen, exits, exitError>>
      OBVIOUS
    <2>0. ppc = "done" /\ ended
      BY DEF Inv, Control
    <2>1. CASE ChildWrite \/ Outside \/ UNCHANGED vars
      BY <2>1, OutsideFrame
    <2>2. CASE Reader
      BY <2>0, <2>2, ReaderFrame DEF Reader, ReaderRead, ReaderEof, ReaderFail, ReaderFeed,
         ReaderFeedsNothing, ReaderRefused, ReaderHandOver, ReaderDone, sessionVars
    <2>3. CASE Pump
      BY <2>0, <2>3 DEF Pump, PumpDue, PumpNotDue, PumpPump, PumpHandOver, PumpEvents, PumpPoll,
         PumpMark, PumpClose, PumpDrained, PumpDrainTimeout, PumpLast, PumpLastEvents, PumpExit
    <2> QED
      BY <2>1, <2>2, <2>3, NextCases
  <1> QED
    BY <1>1, InvHolds, PTL DEF Spec, NothingAfterExit

\* What was written reaches the engine and then on_event, whole and in order, before
\* the exit is reported.
THEOREM OutputGetsThrough == Spec => []OutputArrives
  <1>1. OutputInOrder /\ OutputComplete /\ EventsOnce => OutputArrives
    BY DEF OutputArrives
  <1> QED
    BY <1>1, InOrder, AllRead, AllDelivered, PTL

\* No signal follows the exit the pump found, and nothing is told after on_exit.
THEOREM ExitEndsIt == Spec => ExitIsFinal
  BY ReapedIsSafe, ExitIsLast DEF ExitIsFinal

-----------------------------------------------------------------------------
(* The sink.  SinkIsCurrent is inductive with the types alone: every verb that *)
(* changes the engine leaves a frame pending, or sends it when the session has *)
(* ended, and the pump's last act ends the session after its flush.            *)

LEMMA FlushShows ==
    ASSUME NEW pend \in BOOLEAN, NEW r, Flush(pend, r), sink, ~pend => shown = r
    PROVE  ~pending' /\ shown' = r
  BY DEF Flush

LEMMA SinkFrame ==
    ASSUME ChildWrite \/ ChildExit \/ GrandchildExit \/ WriterRecv \/ WriterWrite \/ WriterFail
             \/ WriterEnd \/ Write \/ Terminate \/ Kill \/ UNCHANGED vars
    PROVE  UNCHANGED <<ended, sink, pending, rev, shown>>
  BY DEF ChildWrite, ChildExit, GrandchildExit, WriterRecv, WriterWrite, WriterFail, WriterEnd,
     Write, Terminate, Kill, KillSeesExit, KillEscalates, vars, sessionVars

LEMMA SinkStep == TypeOK /\ SinkIsCurrent /\ [Next]_vars => SinkIsCurrent'
  <1> SUFFICES ASSUME TypeOK, SinkIsCurrent, [Next]_vars PROVE SinkIsCurrent'
    OBVIOUS
  <1>1. pending \in BOOLEAN /\ sink \in BOOLEAN /\ ended \in BOOLEAN
    BY DEF TypeOK
  <1>2. CASE ChildWrite \/ ChildExit \/ GrandchildExit \/ WriterRecv \/ WriterWrite \/ WriterFail
               \/ WriterEnd \/ Write \/ Terminate \/ Kill \/ UNCHANGED vars
    BY <1>2, SinkFrame DEF SinkIsCurrent
  <1>3. CASE Reader
    <2>1. CASE ReaderFeed
      BY <2>1 DEF ReaderFeed, FeedAndDrain, SinkIsCurrent
    <2>2. CASE Reader /\ UNCHANGED sessionVars
      BY <2>2 DEF sessionVars, SinkIsCurrent
    <2> QED
      BY <1>3, <2>1, <2>2 DEF Reader, ReaderRead, ReaderEof, ReaderFail, ReaderFeedsNothing,
         ReaderRefused, ReaderHandOver, ReaderDone
  <1>4. CASE Pump
    <2>1. CASE PumpPump
      <3>1. UNCHANGED <<ended, sink, rev>> /\ Flush(pending, rev)
        BY <2>1 DEF PumpPump
      <3>2. CASE sink
        BY <1>1, <3>1, <3>2, FlushShows DEF SinkIsCurrent
      <3>3. CASE ~sink
        BY <3>1, <3>3 DEF SinkIsCurrent
      <3> QED
        BY <3>2, <3>3
    <2>2. CASE PumpLast
      <3>1. UNCHANGED <<sink, rev>> /\ Flush(pending, rev)
        BY <2>2 DEF PumpLast
      <3>2. CASE sink
        BY <1>1, <3>1, <3>2, FlushShows DEF SinkIsCurrent
      <3>3. CASE ~sink
        BY <3>1, <3>3 DEF SinkIsCurrent
      <3> QED
        BY <3>2, <3>3
    <2>3. CASE Pump /\ UNCHANGED sessionVars
      BY <2>3 DEF sessionVars, SinkIsCurrent
    <2> QED
      BY <1>4, <2>1, <2>2, <2>3 DEF Pump, PumpDue, PumpNotDue, PumpHandOver, PumpEvents, PumpPoll,
         PumpMark, PumpClose, PumpDrained, PumpDrainTimeout, PumpLastEvents, PumpExit
  <1>5. CASE \E reports \in BOOLEAN : Edit(reports)
    <2>1. CASE ~ended
      BY <1>5, <2>1 DEF Edit, SinkIsCurrent
    <2>2. CASE ended /\ sink
      <3>1. UNCHANGED <<ended, sink>> /\ rev' = rev + 1 /\ Flush(TRUE, rev + 1)
        BY <1>5, <2>2 DEF Edit
      <3>2. ~pending' /\ shown' = rev + 1
        BY <2>2, <3>1 DEF Flush
      <3> QED
        BY <3>1, <3>2 DEF SinkIsCurrent
    <2>3. CASE ~sink
      BY <1>5, <2>3 DEF Edit, SinkIsCurrent
    <2> QED
      BY <2>1, <2>2, <2>3
  <1>6. CASE Subscribe
    BY <1>6 DEF Subscribe, SinkIsCurrent
  <1>7. CASE SendPending
    <2>1. UNCHANGED <<ended, sink, rev>> /\ Flush(pending, rev)
      BY <1>7 DEF SendPending
    <2>2. CASE sink
      BY <1>1, <2>1, <2>2, FlushShows DEF SinkIsCurrent
    <2>3. CASE ~sink
      BY <2>1, <2>3 DEF SinkIsCurrent
    <2> QED
      BY <2>2, <2>3
  <1> QED
    BY <1>2, <1>3, <1>4, <1>5, <1>6, <1>7 DEF Next

\* A subscribed sink with no frame owed to it shows the engine as it is, also after
\* the session has ended, when there is no pump to send one later.
THEOREM SinkShows == Spec => []SinkIsCurrent
  <1>1. Init => SinkIsCurrent
    BY DEF Init, SinkIsCurrent
  <1> QED
    BY <1>1, SinkStep, TypeCorrect, PTL DEF Spec

-----------------------------------------------------------------------------
(* The two streams bound for the child keep their order through the channel  *)
(* they share.  The property is all but inductive: what it needs beside      *)
(* itself is who holds the session's mutex while drained replies are in      *)
(* hand, which is what keeps the reader's and the pump's apart.              *)

\* What the channel carries: an engine reply, or the bytes of one Pty::write.
Items == [from : {"engine", "user"}, n : Nat]

Carried == chan \in Seq(Items) /\ wbuf \in Seq(Items) /\ toChild \in Seq(Items)

\* Replies are in hand only under the mutex, the writer has an item only while it
\* writes, and the input is closed before the last pump.
Hands ==
    /\ rpc = "hand" <=> lock = "reader"
    /\ ppc = "hand" <=> lock = "pump"
    /\ rpc # "hand" => rhand = << >>
    /\ ppc # "hand" => phand = << >>
    /\ wpc # "write" => wbuf = << >>
    /\ wpc = "closed" => ~inputOpen
    /\ ppc \in {"drain", "last", "lastEvents", "exit", "done"} => ~inputOpen

InputInv == Carried /\ Hands /\ RepliesInOrder /\ WritesInOrder

-----------------------------------------------------------------------------
(* Numbered lines. *)

LEMMA CountType ==
    ASSUME NEW s, NEW who, NEW k \in Nat
    PROVE  /\ IsFiniteSet({j \in 1..k : s[j].from = who})
           /\ CountFrom(s, who, k) \in Nat
  <1>1. IsFiniteSet(1..k)
    BY FS_Interval
  <1>2. IsFiniteSet({j \in 1..k : s[j].from = who})
    BY <1>1, FS_Subset
  <1> QED
    BY <1>2, FS_CardinalityType DEF CountFrom

\* Lines that start alike count alike.
LEMMA CountSame ==
    ASSUME NEW s, NEW t, NEW who, NEW k \in Nat, \A j \in 1..k : s[j] = t[j]
    PROVE  CountFrom(s, who, k) = CountFrom(t, who, k)
  <1>1. {j \in 1..k : s[j].from = who} = {j \in 1..k : t[j].from = who}
    OBVIOUS
  <1> QED
    BY <1>1 DEF CountFrom

\* What comes of a line that is extended: its start is as it was.
LEMMA StartsAlike ==
    ASSUME NEW s \in Seq(Items), NEW r \in Seq(Items)
    PROVE  /\ s \o r \in Seq(Items) /\ Len(s) \in Nat /\ Len(r) \in Nat
           /\ Len(s \o r) = Len(s) + Len(r)
           /\ \A i \in 1..Len(s) : (s \o r)[i] = s[i]
           /\ \A i \in 1..Len(r) : (s \o r)[Len(s) + i] = r[i]
  <1>1. Len(s) \in Nat /\ Len(r) \in Nat
    BY LenProperties
  <1>2. /\ s \o r \in Seq(Items)
        /\ Len(s \o r) = Len(s) + Len(r)
        /\ \A i \in 1..(Len(s) + Len(r)) : (s \o r)[i] = IF i <= Len(s) THEN s[i] ELSE r[i - Len(s)]
    BY ConcatProperties
  <1> DEFINE t == s \o r
  <1> HIDE DEF t
  <1>3. \A i \in 1..(Len(s) + Len(r)) : t[i] = IF i <= Len(s) THEN s[i] ELSE r[i - Len(s)]
    BY <1>2 DEF t
  <1>4. \A i \in 1..Len(s) : t[i] = s[i]
    BY <1>1, <1>3
  <1>5. \A i \in 1..Len(r) : t[Len(s) + i] = r[i]
    <2> TAKE i \in 1..Len(r)
    <2>1. Len(s) + i \in 1..(Len(s) + Len(r)) /\ ~(Len(s) + i <= Len(s)) /\ (Len(s) + i) - Len(s) = i
      BY <1>1
    <2> QED
      BY <1>3, <2>1
  <1> QED
    BY <1>1, <1>2, <1>4, <1>5 DEF t

\* The start of a numbered line is numbered.
LEMMA NumberedStart ==
    ASSUME NEW s \in Seq(Items), NEW r \in Seq(Items), NEW who, Numbered(s \o r, who)
    PROVE  Numbered(s, who)
  <1> DEFINE t == s \o r
  <1>1. /\ Len(s) \in Nat /\ Len(r) \in Nat /\ Len(t) = Len(s) + Len(r)
        /\ \A i \in 1..Len(s) : t[i] = s[i]
        /\ Numbered(t, who)
    BY StartsAlike
  <1> HIDE DEF t
  <1>2. ASSUME NEW i \in 1..Len(s), s[i].from = who PROVE s[i].n = CountFrom(s, who, i)
    <2>1. i \in 1..Len(t) /\ t[i] = s[i] /\ i \in Nat /\ \A j \in 1..i : s[j] = t[j]
      BY <1>1
    <2>2. CountFrom(s, who, i) = CountFrom(t, who, i)
      BY <2>1, CountSame
    <2> QED
      BY <1>1, <1>2, <2>1, <2>2 DEF Numbered
  <1> QED
    BY <1>2 DEF Numbered

\* Items of someone else change neither the count nor the numbers.
LEMMA OthersJoin ==
    ASSUME NEW s \in Seq(Items), NEW r \in Seq(Items), NEW who,
           Numbered(s, who), \A i \in 1..Len(r) : r[i].from # who
    PROVE  /\ Numbered(s \o r, who)
           /\ CountFrom(s \o r, who, Len(s \o r)) = CountFrom(s, who, Len(s))
  <1> DEFINE t == s \o r
  <1>1. /\ Len(s) \in Nat /\ Len(r) \in Nat /\ Len(t) = Len(s) + Len(r)
        /\ \A i \in 1..Len(s) : t[i] = s[i]
        /\ \A i \in 1..Len(r) : t[Len(s) + i] = r[i]
    BY StartsAlike
  <1> HIDE DEF t
  <1>2. \A i \in (Len(s) + 1)..(Len(s) + Len(r)) : t[i].from # who
    <2> TAKE i \in (Len(s) + 1)..(Len(s) + Len(r))
    <2>1. i - Len(s) \in 1..Len(r) /\ Len(s) + (i - Len(s)) = i
      BY <1>1
    <2> QED
      BY <1>1, <2>1
  <1>3. CountFrom(t, who, Len(t)) = CountFrom(s, who, Len(s))
    <2>1. {j \in 1..Len(t) : t[j].from = who} = {j \in 1..Len(s) : s[j].from = who}
      BY <1>1, <1>2
    <2> QED
      BY <2>1 DEF CountFrom
  <1>4. ASSUME NEW i \in 1..Len(t), t[i].from = who PROVE t[i].n = CountFrom(t, who, i)
    <2>1. i \in 1..Len(s) /\ i \in Nat
      BY <1>1, <1>2, <1>4
    <2>2. t[i] = s[i] /\ \A j \in 1..i : s[j] = t[j]
      BY <1>1, <2>1
    <2>3. CountFrom(s, who, i) = CountFrom(t, who, i)
      BY <2>1, <2>2, CountSame
    <2> QED
      BY <1>4, <2>1, <2>2, <2>3 DEF Numbered
  <1>5. Numbered(t, who)
    BY <1>4 DEF Numbered
  <1> QED
    BY <1>3, <1>5 DEF t

\* Items that are numbered on from the count keep the line numbered.
LEMMA NextJoin ==
    ASSUME NEW s \in Seq(Items), NEW r \in Seq(Items), NEW who, Numbered(s, who),
           \A i \in 1..Len(r) : r[i].from = who /\ r[i].n = CountFrom(s, who, Len(s)) + i
    PROVE  /\ Numbered(s \o r, who)
           /\ CountFrom(s \o r, who, Len(s \o r)) = CountFrom(s, who, Len(s)) + Len(r)
  <1> DEFINE t == s \o r
  <1> DEFINE c == CountFrom(s, who, Len(s))
  <1>1. /\ Len(s) \in Nat /\ Len(r) \in Nat /\ Len(t) = Len(s) + Len(r)
        /\ \A i \in 1..Len(s) : t[i] = s[i]
        /\ \A i \in 1..Len(r) : t[Len(s) + i] = r[i]
    BY StartsAlike
  <1> HIDE DEF t
  <1>2. \A i \in (Len(s) + 1)..(Len(s) + Len(r)) : t[i].from = who /\ t[i].n = c + (i - Len(s))
    <2> TAKE i \in (Len(s) + 1)..(Len(s) + Len(r))
    <2>1. i - Len(s) \in 1..Len(r) /\ Len(s) + (i - Len(s)) = i
      BY <1>1
    <2> QED
      BY <1>1, <2>1
  <1>3. ASSUME NEW k \in 0..Len(r) PROVE CountFrom(t, who, Len(s) + k) = c + k
    <2> DEFINE old == {j \in 1..Len(s) : s[j].from = who}
    <2> DEFINE new == (Len(s) + 1)..(Len(s) + k)
    <2>1. IsFiniteSet(old) /\ Cardinality(old) = c /\ c \in Nat /\ k \in Nat
      <3>1. IsFiniteSet(old) /\ c \in Nat
        BY <1>1, CountType
      <3>2. Cardinality(old) = c
        BY DEF CountFrom
      <3> QED
        BY <1>1, <3>1, <3>2
    <2>2. IsFiniteSet(new) /\ Cardinality(new) = k
      <3>1. Len(s) + 1 \in Int /\ Len(s) + k \in Int
        BY <1>1
      <3>2. /\ IsFiniteSet(new)
            /\ Cardinality(new) = IF Len(s) + 1 > Len(s) + k THEN 0 ELSE (Len(s) + k) - (Len(s) + 1) + 1
        BY <3>1, FS_Interval
      <3> QED
        BY <1>1, <3>2
    <2>3. old \cap new = {}
      BY <1>1
    <2>4. {j \in 1..(Len(s) + k) : t[j].from = who} = old \cup new
      BY <1>1, <1>2
    <2>5. Cardinality(old \cup new) = Cardinality(old) + Cardinality(new) - Cardinality(old \cap new)
      BY <2>1, <2>2, FS_Union
    <2>6. Cardinality(old \cap new) = 0
      BY <2>3, FS_EmptySet
    <2>7. CountFrom(t, who, Len(s) + k) = Cardinality(old \cup new)
      BY <2>4 DEF CountFrom
    <2> HIDE DEF old, new, c
    <2> QED
      BY <2>1, <2>2, <2>5, <2>6, <2>7
  <1>4. ASSUME NEW i \in 1..Len(t), t[i].from = who PROVE t[i].n = CountFrom(t, who, i)
    <2>1. CASE i <= Len(s)
      <3>1. i \in 1..Len(s) /\ i \in Nat
        BY <1>1, <2>1
      <3>2. t[i] = s[i] /\ \A j \in 1..i : s[j] = t[j]
        BY <1>1, <3>1
      <3>3. CountFrom(s, who, i) = CountFrom(t, who, i)
        BY <3>1, <3>2, CountSame
      <3> QED
        BY <1>4, <3>1, <3>2, <3>3 DEF Numbered
    <2>2. CASE ~(i <= Len(s))
      <3>1. i - Len(s) \in 0..Len(r) /\ Len(s) + (i - Len(s)) = i /\ i \in (Len(s) + 1)..(Len(s) + Len(r))
        BY <1>1, <2>2
      <3>2. CountFrom(t, who, i) = c + (i - Len(s))
        BY <1>3, <3>1
      <3> QED
        BY <1>2, <3>1, <3>2
    <2> QED
      BY <2>1, <2>2
  <1>5. Numbered(t, who)
    BY <1>4 DEF Numbered
  <1>6. CountFrom(t, who, Len(t)) = c + Len(r)
    <2>1. Len(r) \in 0..Len(r)
      BY <1>1
    <2> QED
      BY <1>1, <1>3, <2>1
  <1> QED
    BY <1>5, <1>6 DEF t
-----------------------------------------------------------------------------
(* Steps. *)

\* The steps that leave both streams where they are, and the ones that move them.
Still == UNCHANGED <<chan, wbuf, toChild, rhand, phand, replies, asked, writes, inputOpen, wpc>>

LEMMA Movers ==
    [Next]_vars => \/ Still \/ ReaderFeed \/ ReaderHandOver \/ PumpPump \/ PumpHandOver
                   \/ PumpClose \/ PumpLast \/ WriterRecv \/ WriterWrite \/ WriterFail
                   \/ WriterEnd \/ Write \/ \E reports \in BOOLEAN : Edit(reports)
  <1> USE DEF Still, sessionVars, readerVars, pumpVars, inputVars
  <1>1. ChildWrite \/ ChildExit \/ GrandchildExit => Still
    BY DEF ChildWrite, ChildExit, GrandchildExit
  <1>2. ReaderRead \/ ReaderEof \/ ReaderFail => Still
    BY DEF ReaderRead, ReaderEof, ReaderFail
  <1>3. ReaderFeedsNothing \/ ReaderRefused \/ ReaderDone => Still
    BY DEF ReaderFeedsNothing, ReaderRefused, ReaderDone
  <1>4. PumpDue \/ PumpNotDue \/ PumpEvents \/ PumpPoll \/ PumpMark => Still
    BY DEF PumpDue, PumpNotDue, PumpEvents, PumpPoll, PumpMark
  <1>5. PumpDrained \/ PumpDrainTimeout \/ PumpLastEvents \/ PumpExit => Still
    BY DEF PumpDrained, PumpDrainTimeout, PumpLastEvents, PumpExit
  <1>6. Subscribe \/ SendPending \/ Terminate \/ Kill => Still
    BY DEF Subscribe, SendPending, Terminate, Kill, KillSeesExit, KillEscalates
  <1>7. UNCHANGED vars => Still
    BY DEF vars
  <1> QED
    BY <1>1, <1>2, <1>3, <1>4, <1>5, <1>6, <1>7 DEF Next, Reader, Pump

\* Handed-over replies as the channel carries them.
LEMMA EngineItems ==
    ASSUME NEW w \in Seq(Nat)
    PROVE  /\ FromEngine(w) \in Seq(Items) /\ Len(FromEngine(w)) = Len(w) /\ Len(w) \in Nat
           /\ \A i \in 1..Len(w) : FromEngine(w)[i] = [from |-> "engine", n |-> w[i]]
  <1>1. Len(w) \in Nat /\ \A i \in 1..Len(w) : w[i] \in Nat
    BY LenProperties, ElementOfSeq
  <1>2. FromEngine(w) = [i \in 1..Len(w) |-> [from |-> "engine", n |-> w[i]]]
    BY DEF FromEngine
  <1>3. FromEngine(w) \in [1..Len(w) -> Items]
    BY <1>1, <1>2 DEF Items
  <1>4. FromEngine(w) \in Seq(Items)
    BY <1>1, <1>3, SeqDef
  <1>5. Len(FromEngine(w)) = Len(w)
    BY <1>1, <1>3, <1>4, LenProperties
  <1> QED
    BY <1>1, <1>2, <1>4, <1>5

LEMMA CarriedStep == TypeOK /\ Carried /\ [Next]_vars => Carried'
  <1> SUFFICES ASSUME TypeOK, Carried, [Next]_vars PROVE Carried'
    OBVIOUS
  <1>0. /\ chan \in Seq(Items) /\ wbuf \in Seq(Items) /\ toChild \in Seq(Items)
        /\ << >> \in Seq(Items) /\ rhand \in Seq(Nat) /\ phand \in Seq(Nat)
    BY EmptySeq DEF TypeOK, Carried
  <1> USE DEF Carried, sessionVars, readerVars, pumpVars, inputVars
  <1>1. CASE Still
    BY <1>0, <1>1 DEF Still
  <1>2. CASE ReaderHandOver
    <2>1. chan \o FromEngine(rhand) \in Seq(Items)
      BY <1>0, EngineItems, ConcatProperties
    <2> QED
      BY <1>0, <1>2, <2>1 DEF ReaderHandOver, WriteBack
  <1>3. CASE PumpHandOver
    <2>1. chan \o FromEngine(phand) \in Seq(Items)
      BY <1>0, EngineItems, ConcatProperties
    <2> QED
      BY <1>0, <1>3, <2>1 DEF PumpHandOver, WriteBack
  <1>4. CASE WriterRecv
    <2>1. Head(chan) \in Items /\ Tail(chan) \in Seq(Items)
      BY <1>0, <1>4, HeadTailProperties DEF WriterRecv
    <2>2. <<Head(chan)>> \in Seq(Items)
      BY <2>1
    <2> QED
      BY <1>0, <1>4, <2>1, <2>2 DEF WriterRecv
  <1>5. CASE WriterWrite
    BY <1>0, <1>5, ConcatProperties DEF WriterWrite
  <1>6. CASE WriterFail
    BY <1>0, <1>6 DEF WriterFail
  <1>7. CASE Write
    <2>1. [from |-> "user", n |-> writes + 1] \in Items
      BY LoopAssumption DEF Items, TypeOK, LoopAssumption
    <2> QED
      BY <1>0, <1>7, <2>1, AppendProperties DEF Write
  <1>8. CASE ReaderFeed \/ PumpPump \/ PumpClose \/ PumpLast \/ WriterEnd
    BY <1>0, <1>8 DEF ReaderFeed, PumpPump, PumpClose, PumpLast, WriterEnd
  <1>9. CASE \E reports \in BOOLEAN : Edit(reports)
    BY <1>0, <1>9 DEF Edit
  <1> QED
    BY <1>1, <1>2, <1>3, <1>4, <1>5, <1>6, <1>7, <1>8, <1>9, Movers

LEMMA HandsStep == TypeOK /\ Hands /\ [Next]_vars => Hands'
  <1> SUFFICES ASSUME TypeOK, Hands, [Next]_vars PROVE Hands'
    OBVIOUS
  <1> USE DEF Hands, sessionVars, readerVars, pumpVars, inputVars
  <1>1. CASE ChildWrite \/ ChildExit \/ GrandchildExit
    BY <1>1 DEF ChildWrite, ChildExit, GrandchildExit
  <1>2. CASE Reader
    <2>1. CASE ReaderRead \/ ReaderEof \/ ReaderFail \/ ReaderDone
      BY <2>1 DEF ReaderRead, ReaderEof, ReaderFail, ReaderDone, LeaveLoop
    <2>2. CASE ReaderFeed
      BY <2>2 DEF ReaderFeed
    <2>3. CASE ReaderFeedsNothing
      BY <2>3 DEF ReaderFeedsNothing
    <2>4. CASE ReaderRefused
      BY <2>4 DEF ReaderRefused, LeaveLoop
    <2>5. CASE ReaderHandOver
      BY <2>5 DEF ReaderHandOver
    <2> QED
      BY <1>2, <2>1, <2>2, <2>3, <2>4, <2>5 DEF Reader
  <1>3. CASE Pump
    <2>1. CASE PumpDue \/ PumpNotDue \/ PumpEvents \/ PumpPoll \/ PumpMark
      BY <2>1 DEF PumpDue, PumpNotDue, PumpEvents, PumpPoll, PumpMark
    <2>2. CASE PumpPump
      BY <2>2 DEF PumpPump
    <2>3. CASE PumpHandOver
      BY <2>3 DEF PumpHandOver
    <2>4. CASE PumpClose
      BY <2>4 DEF PumpClose
    <2>5. CASE PumpDrained \/ PumpDrainTimeout \/ PumpLastEvents \/ PumpExit
      BY <2>5 DEF PumpDrained, PumpDrainTimeout, PumpLastEvents, PumpExit
    <2>6. CASE PumpLast
      BY <2>6 DEF PumpLast
    <2> QED
      BY <1>3, <2>1, <2>2, <2>3, <2>4, <2>5, <2>6 DEF Pump
  <1>4. CASE WriterRecv \/ WriterWrite \/ WriterFail \/ WriterEnd
    BY <1>4 DEF WriterRecv, WriterWrite, WriterFail, WriterEnd
  <1>5. CASE Write \/ Subscribe \/ SendPending \/ Terminate \/ Kill
    BY <1>5 DEF Write, Subscribe, SendPending, Terminate, Kill, KillSeesExit, KillEscalates
  <1>6. CASE \E reports \in BOOLEAN : Edit(reports)
    BY <1>6 DEF Edit
  <1>7. CASE UNCHANGED vars
    BY <1>7 DEF vars
  <1> QED
    BY <1>1, <1>2, <1>3, <1>4, <1>5, <1>6, <1>7 DEF Next
-----------------------------------------------------------------------------
(* Order. *)

\* Concatenation groups either way.
LEMMA Regrouped ==
    ASSUME NEW S, NEW s \in Seq(S), NEW t \in Seq(S)
    PROVE  \A u \in Seq(S) : s \o (t \o u) = (s \o t) \o u
  BY ConcatAssociative

\* The line, and what joins it at the end of the channel.
LEMMA Lined ==
    ASSUME Carried
    PROVE  /\ Line \in Seq(Items)
           /\ Line = toChild \o (wbuf \o chan)
           /\ \A x \in Seq(Items) : toChild \o wbuf \o (chan \o x) = Line \o x
  <1>1. chan \in Seq(Items) /\ wbuf \in Seq(Items) /\ toChild \in Seq(Items)
    BY DEF Carried
  <1>2. toChild \o wbuf \in Seq(Items)
    BY <1>1, ConcatProperties
  <1>3. Line \in Seq(Items)
    BY <1>1, <1>2, ConcatProperties DEF Line
  <1>4. Line = toChild \o (wbuf \o chan)
    BY <1>1, ConcatAssociative DEF Line
  <1>5. \A x \in Seq(Items) : toChild \o wbuf \o (chan \o x) = Line \o x
    BY <1>1, <1>2, Regrouped DEF Line
  <1> QED
    BY <1>3, <1>4, <1>5

LEMMA WaitingType ==
    ASSUME TypeOK
    PROVE  /\ rhand \in Seq(Nat) /\ phand \in Seq(Nat) /\ replies \in Seq(Nat)
           /\ Waiting \in Seq(Nat) /\ asked \in Nat /\ << >> \in Seq(Nat)
           /\ rhand = << >> => Waiting = phand \o replies
           /\ phand = << >> => Waiting = rhand \o replies
  <1>1. /\ rhand \in Seq(Nat) /\ phand \in Seq(Nat) /\ replies \in Seq(Nat)
        /\ asked \in Nat /\ << >> \in Seq(Nat)
    BY EmptySeq DEF TypeOK
  <1> QED
    BY <1>1, ConcatProperties, ConcatEmptySeq DEF Waiting

\* A step that moves no item past another, and after which the waiting replies count
\* only if they wait as before.
LEMMA Kept ==
    ASSUME RepliesInOrder, WritesInOrder, Line' = Line, writes' = writes,
           inputOpen' => inputOpen /\ Waiting' = Waiting /\ asked' = asked,
           wpc' # "stopped" => wpc # "stopped"
    PROVE  RepliesInOrder' /\ WritesInOrder'
  <1>1. Numbered(Line', "engine") /\ Numbered(Line', "user")
    BY DEF RepliesInOrder, WritesInOrder
  <1>2. RepliesInOrder'
    BY <1>1 DEF RepliesInOrder
  <1>3. WritesInOrder'
    BY <1>1 DEF WritesInOrder
  <1> QED
    BY <1>2, <1>3

\* New replies, which take the next numbers, wait behind the others.
LEMMA Produced ==
    ASSUME TypeOK, Carried, RepliesInOrder, WritesInOrder, Line' = Line,
           NEW w \in Seq(Nat), \A i \in 1..Len(w) : w[i] = asked + i,
           Waiting' = Waiting \o w, asked' = asked + Len(w),
           UNCHANGED <<writes, inputOpen, wpc>>
    PROVE  RepliesInOrder' /\ WritesInOrder'
  <1>1. Numbered(Line', "engine") /\ Numbered(Line', "user")
    BY DEF RepliesInOrder, WritesInOrder
  <1>2. WritesInOrder'
    BY <1>1 DEF WritesInOrder
  <1>3. ASSUME inputOpen, wpc # "stopped"
        PROVE  LET handed == CountFrom(Line, "engine", Len(Line))
               IN  /\ asked' = handed + Len(Waiting')
                   /\ \A i \in 1..Len(Waiting') : Waiting'[i] = handed + i
    <2> DEFINE handed == CountFrom(Line, "engine", Len(Line))
    <2>1. /\ asked = handed + Len(Waiting)
          /\ \A i \in 1..Len(Waiting) : Waiting[i] = handed + i
      BY <1>3 DEF RepliesInOrder
    <2>2. handed \in Nat
      BY Lined, LenProperties, CountType
    <2>3. Waiting \in Seq(Nat) /\ Len(Waiting) \in Nat /\ Len(w) \in Nat
      BY WaitingType, LenProperties
    <2>4. /\ Len(Waiting') = Len(Waiting) + Len(w)
          /\ \A i \in 1..(Len(Waiting) + Len(w)) :
                Waiting'[i] = IF i <= Len(Waiting) THEN Waiting[i] ELSE w[i - Len(Waiting)]
      BY <2>3, ConcatProperties
    <2> HIDE DEF handed
    <2>5. ASSUME NEW i \in 1..(Len(Waiting) + Len(w)) PROVE Waiting'[i] = handed + i
      <3>1. CASE i <= Len(Waiting)
        BY <2>1, <2>3, <2>4, <3>1
      <3>2. CASE ~(i <= Len(Waiting))
        <4>1. i - Len(Waiting) \in 1..Len(w)
          BY <2>3, <3>2
        <4>2. Waiting'[i] = asked + (i - Len(Waiting))
          BY <2>4, <3>2, <4>1
        <4> QED
          BY <2>1, <2>2, <2>3, <4>1, <4>2
      <3> QED
        BY <3>1, <3>2
    <2>6. asked' = handed + Len(Waiting')
      BY <2>1, <2>2, <2>3, <2>4
    <2> QED
      BY <2>4, <2>5, <2>6 DEF handed
  <1>4. RepliesInOrder'
    BY <1>1, <1>3 DEF RepliesInOrder
  <1> QED
    BY <1>2, <1>4

\* A hand-over of the replies that wait in front.
LEMMA HandedOver ==
    ASSUME TypeOK, InputInv, NEW w \in Seq(Nat), NEW rest \in Seq(Nat),
           Waiting = w \o rest, Waiting' = rest, WriteBack(FromEngine(w)),
           UNCHANGED <<asked, writes, inputOpen, wpc, wbuf, toChild>>
    PROVE  RepliesInOrder' /\ WritesInOrder'
  <1>0. RepliesInOrder /\ WritesInOrder /\ Carried /\ Hands
    BY DEF InputInv
  <1>1. Line \in Seq(Items) /\ Len(Line) \in Nat
    BY <1>0, Lined, LenProperties
  <1>2. CASE ~(inputOpen /\ WriterListens)
    <2>1. Line' = Line
      BY <1>2 DEF WriteBack, Line
    <2>2. Numbered(Line', "engine") /\ Numbered(Line', "user")
      BY <1>0, <2>1 DEF RepliesInOrder, WritesInOrder
    <2>3. ~(inputOpen /\ wpc # "stopped")
      BY <1>0, <1>2 DEF WriterListens, Hands, TypeOK, WriterPC
    <2>4. RepliesInOrder'
      BY <2>2, <2>3 DEF RepliesInOrder
    <2>5. WritesInOrder'
      BY <1>0, <2>1, <2>2 DEF WritesInOrder
    <2> QED
      BY <2>4, <2>5
  <1>3. CASE inputOpen /\ WriterListens
    <2> DEFINE r == FromEngine(w)
    <2> DEFINE handed == CountFrom(Line, "engine", Len(Line))
    <2>1. /\ r \in Seq(Items) /\ Len(r) = Len(w) /\ Len(w) \in Nat
          /\ \A i \in 1..Len(w) : r[i] = [from |-> "engine", n |-> w[i]]
      BY EngineItems
    <2>2. Line' = Line \o r
      <3>1. chan' = chan \o r
        BY <1>3 DEF WriteBack
      <3> QED
        BY <1>0, <2>1, <3>1, Lined DEF Line
    <2>3. wpc # "stopped" /\ handed \in Nat
      BY <1>1, <1>3, CountType DEF WriterListens
    <2>4. /\ asked = handed + Len(Waiting)
          /\ \A i \in 1..Len(Waiting) : Waiting[i] = handed + i
      BY <1>0, <1>3, <2>3 DEF RepliesInOrder
    <2>5. /\ Len(rest) \in Nat /\ Len(Waiting) = Len(w) + Len(rest)
          /\ \A i \in 1..(Len(w) + Len(rest)) :
                Waiting[i] = IF i <= Len(w) THEN w[i] ELSE rest[i - Len(w)]
      BY LenProperties, ConcatProperties
    <2> HIDE DEF r, handed
    <2>6. \A i \in 1..Len(w) : w[i] = handed + i
      BY <2>1, <2>4, <2>5
    <2>7. \A i \in 1..Len(rest) : rest[i] = handed + Len(w) + i
      <3> TAKE i \in 1..Len(rest)
      <3>1. /\ Len(w) + i \in 1..(Len(w) + Len(rest))
            /\ ~(Len(w) + i <= Len(w)) /\ Len(w) + i - Len(w) = i
        BY <2>1, <2>5
      <3>2. Waiting[Len(w) + i] = rest[i]
        BY <2>5, <3>1
      <3>3. Waiting[Len(w) + i] = handed + (Len(w) + i)
        BY <2>4, <2>5, <3>1
      <3>4. handed + (Len(w) + i) = handed + Len(w) + i
        BY <2>1, <2>3
      <3> QED
        BY <3>2, <3>3, <3>4, Zenon
    <2>8. \A i \in 1..Len(r) : r[i].from = "engine" /\ r[i].n = handed + i
      <3> TAKE i \in 1..Len(r)
      <3>1. r[i] = [from |-> "engine", n |-> w[i]] /\ w[i] = handed + i
        BY <2>1, <2>6
      <3> QED
        BY <3>1
    <2>9. /\ Numbered(Line \o r, "engine")
          /\ CountFrom(Line \o r, "engine", Len(Line \o r)) = handed + Len(w)
      <3>1. Numbered(Line, "engine")
        BY <1>0 DEF RepliesInOrder
      <3> QED
        BY <1>1, <2>1, <2>8, <3>1, NextJoin DEF handed
    <2>10. /\ Numbered(Line \o r, "user")
           /\ CountFrom(Line \o r, "user", Len(Line \o r)) = CountFrom(Line, "user", Len(Line))
      <3>1. Numbered(Line, "user")
        BY <1>0 DEF WritesInOrder
      <3>2. \A i \in 1..Len(r) : r[i].from # "user"
        BY <2>8
      <3> QED
        BY <1>1, <2>1, <3>1, <3>2, OthersJoin
    <2>11. RepliesInOrder'
      <3>1. asked' = handed + Len(w) + Len(Waiting')
        BY <2>1, <2>3, <2>4, <2>5
      <3>2. \A i \in 1..Len(Waiting') : Waiting'[i] = handed + Len(w) + i
        BY <2>7
      <3> QED
        BY <2>2, <2>9, <3>1, <3>2 DEF RepliesInOrder
    <2>12. WritesInOrder'
      BY <1>0, <2>2, <2>10 DEF WritesInOrder
    <2> QED
      BY <2>11, <2>12
  <1> QED
    BY <1>2, <1>3
LEMMA OrderStep == TypeOK /\ InputInv /\ [Next]_vars => RepliesInOrder' /\ WritesInOrder'
  <1> SUFFICES ASSUME TypeOK, InputInv, [Next]_vars PROVE RepliesInOrder' /\ WritesInOrder'
    OBVIOUS
  <1> USE DEF sessionVars, readerVars, pumpVars, inputVars
  <1>0. RepliesInOrder /\ WritesInOrder /\ Carried /\ Hands
    BY DEF InputInv
  <1>1. /\ chan \in Seq(Items) /\ wbuf \in Seq(Items) /\ toChild \in Seq(Items)
        /\ << >> \in Seq(Items)
    BY <1>0, EmptySeq DEF Carried
  <1>2. CASE Still
    <2>1. Line' = Line /\ Waiting' = Waiting
      BY <1>2 DEF Still, Line, Waiting
    <2> QED
      BY <1>0, <1>2, <2>1, Kept DEF Still
  <1>3. CASE ReaderFeed
    <2> DEFINE w == [i \in 1..Asks(rbuf) |-> asked + i]
    <2>1. Asks(rbuf) \in Nat /\ w \in Seq(Nat)
      BY FreshReplies DEF TypeOK
    <2>2. Len(w) = Asks(rbuf) /\ \A i \in 1..Len(w) : w[i] = asked + i
      BY <2>1
    <2>3. /\ rhand' = replies \o w /\ replies' = << >> /\ asked' = asked + Asks(rbuf)
          /\ rhand = << >> /\ phand = << >> /\ phand' = << >>
          /\ UNCHANGED <<chan, wbuf, toChild, writes, inputOpen, wpc>>
      BY <1>0, <1>3 DEF ReaderFeed, FeedAndDrain, Hands
    <2> HIDE DEF w
    <2>4. Waiting = replies /\ Waiting' = replies \o w
      <3>1. replies \in Seq(Nat) /\ << >> \in Seq(Nat) /\ replies \o w \in Seq(Nat)
        BY <2>1, WaitingType, ConcatProperties
      <3> QED
        BY <2>3, <3>1, ConcatEmptySeq DEF Waiting
    <2>5. Line' = Line
      BY <2>3 DEF Line
    <2> QED
      BY <1>0, <2>1, <2>2, <2>3, <2>4, <2>5, Produced
  <1>4. CASE ReaderHandOver
    <2>1. /\ phand = << >> /\ phand' = << >> /\ rhand' = << >> /\ replies' = replies
          /\ WriteBack(FromEngine(rhand))
          /\ UNCHANGED <<asked, writes, inputOpen, wpc, wbuf, toChild>>
      BY <1>0, <1>4 DEF ReaderHandOver, Hands
    <2>2. Waiting = rhand \o replies /\ Waiting' = replies
      BY <2>1, WaitingType, ConcatEmptySeq DEF Waiting
    <2> QED
      BY <2>1, <2>2, WaitingType, HandedOver
  <1>5. CASE PumpPump
    <2>1. /\ rhand = << >> /\ rhand' = << >> /\ phand = << >> /\ phand' = replies
          /\ replies' = << >>
          /\ UNCHANGED <<asked, chan, wbuf, toChild, writes, inputOpen, wpc>>
      BY <1>0, <1>5 DEF PumpPump, Hands
    <2>2. Line' = Line /\ Waiting' = Waiting
      BY <2>1, WaitingType, ConcatEmptySeq DEF Line, Waiting
    <2> QED
      BY <1>0, <2>1, <2>2, Kept
  <1>6. CASE PumpHandOver
    <2>1. /\ rhand = << >> /\ rhand' = << >> /\ phand' = << >> /\ replies' = replies
          /\ WriteBack(FromEngine(phand))
          /\ UNCHANGED <<asked, writes, inputOpen, wpc, wbuf, toChild>>
      BY <1>0, <1>6 DEF PumpHandOver, Hands
    <2>2. Waiting = phand \o replies /\ Waiting' = replies
      BY <2>1, WaitingType, ConcatEmptySeq DEF Waiting
    <2> QED
      BY <2>1, <2>2, WaitingType, HandedOver
  <1>7. CASE PumpClose \/ PumpLast
    <2>1. Line' = Line /\ ~inputOpen' /\ UNCHANGED <<writes, wpc>>
      BY <1>0, <1>7 DEF PumpClose, PumpLast, Hands, Line
    <2> QED
      BY <1>0, <2>1, Kept
  <1>8. CASE WriterRecv
    <2>1. /\ wbuf = << >> /\ wbuf' = <<Head(chan)>> /\ chan' = Tail(chan) /\ chan # << >>
          /\ wpc = "recv"
          /\ UNCHANGED <<toChild, asked, rhand, phand, replies, writes, inputOpen>>
      BY <1>0, <1>8 DEF WriterRecv, Hands
    <2>2. Head(chan) \in Items /\ Tail(chan) \in Seq(Items) /\ chan = <<Head(chan)>> \o Tail(chan)
      BY <1>1, <2>1, HeadTailProperties
    <2>3. Line' = Line
      <3>1. Line' = toChild \o (<<Head(chan)>> \o Tail(chan))
        <4>1. Line' = toChild \o <<Head(chan)>> \o Tail(chan)
          BY <2>1 DEF Line
        <4>2. <<Head(chan)>> \in Seq(Items)
          BY <2>2
        <4> QED
          BY <1>1, <2>2, <4>1, <4>2, Regrouped
      <3>2. Line = toChild \o chan
        BY <1>1, <2>1, ConcatEmptySeq DEF Line
      <3> QED
        BY <2>2, <3>1, <3>2
    <2>4. Waiting' = Waiting
      BY <2>1 DEF Waiting
    <2> QED
      BY <1>0, <2>1, <2>3, <2>4, Kept
  <1>9. CASE WriterWrite
    <2>1. /\ toChild' = toChild \o wbuf /\ wbuf' = << >> /\ wpc = "write" /\ chan' = chan
          /\ UNCHANGED <<asked, rhand, phand, replies, writes, inputOpen>>
      BY <1>9 DEF WriterWrite
    <2>2. Line' = Line
      <3>1. toChild \o wbuf \in Seq(Items)
        BY <1>1, ConcatProperties
      <3>2. toChild \o wbuf \o << >> = toChild \o wbuf
        BY <3>1, ConcatEmptySeq
      <3> QED
        BY <2>1, <3>2 DEF Line
    <2>3. Waiting' = Waiting
      BY <2>1 DEF Waiting
    <2> QED
      BY <1>0, <2>1, <2>2, <2>3, Kept
  <1>10. CASE WriterFail
    <2>1. /\ wpc' = "stopped" /\ wbuf' = << >> /\ chan' = << >> /\ toChild' = toChild
      BY <1>10 DEF WriterFail
    <2>2. Line' = toChild
      BY <1>1, <2>1, ConcatEmptySeq DEF Line
    <2>3. wbuf \o chan \in Seq(Items) /\ Line = toChild \o (wbuf \o chan)
      BY <1>0, <1>1, ConcatProperties, Lined
    <2>4. Numbered(Line', "engine") /\ Numbered(Line', "user")
      BY <1>0, <1>1, <2>2, <2>3, NumberedStart DEF RepliesInOrder, WritesInOrder
    <2> QED
      BY <2>1, <2>4 DEF RepliesInOrder, WritesInOrder
  <1>11. CASE WriterEnd
    <2>1. Line' = Line /\ Waiting' = Waiting /\ wpc = "recv" /\ UNCHANGED <<asked, writes, inputOpen>>
      BY <1>11 DEF WriterEnd, Line, Waiting
    <2> QED
      BY <1>0, <2>1, Kept
  <1>12. CASE Write
    <2> DEFINE it == [from |-> "user", n |-> writes + 1]
    <2>1. it \in Items /\ <<it>> \in Seq(Items) /\ Len(<<it>>) = 1 /\ <<it>>[1] = it
      BY LoopAssumption DEF Items, TypeOK, LoopAssumption
    <2>2. /\ writes' = writes + 1 /\ chan' = Append(chan, it) /\ wpc # "stopped"
          /\ UNCHANGED <<wbuf, toChild, asked, rhand, phand, replies, inputOpen, wpc>>
      BY <1>12 DEF Write, WriterListens
    <2>3. it.from = "user" /\ it.n = writes + 1
      OBVIOUS
    <2> HIDE DEF it
    <2>4. Line \in Seq(Items) /\ Line' = Line \o <<it>>
      <3>1. chan' = chan \o <<it>>
        BY <1>1, <2>1, <2>2, AppendIsConcat
      <3> QED
        BY <1>0, <2>1, <2>2, <3>1, Lined DEF Line
    <2>5. /\ Numbered(Line, "engine") /\ Numbered(Line, "user")
          /\ CountFrom(Line, "user", Len(Line)) = writes
      BY <1>0, <2>2 DEF RepliesInOrder, WritesInOrder
    <2>6. /\ Numbered(Line', "engine")
          /\ CountFrom(Line', "engine", Len(Line')) = CountFrom(Line, "engine", Len(Line))
      <3>1. \A i \in 1..Len(<<it>>) : <<it>>[i].from # "engine"
        BY <2>1, <2>3
      <3> QED
        BY <2>1, <2>4, <2>5, <3>1, OthersJoin
    <2>7. Numbered(Line', "user") /\ CountFrom(Line', "user", Len(Line')) = writes + 1
      <3>1. \A i \in 1..Len(<<it>>) :
                <<it>>[i].from = "user" /\ <<it>>[i].n = CountFrom(Line, "user", Len(Line)) + i
        BY <2>1, <2>3, <2>5
      <3> QED
        BY <2>1, <2>4, <2>5, <3>1, NextJoin
    <2>8. Waiting' = Waiting
      BY <2>2 DEF Waiting
    <2>9. RepliesInOrder'
      BY <1>0, <2>2, <2>6, <2>8 DEF RepliesInOrder
    <2>10. WritesInOrder'
      BY <2>2, <2>7 DEF WritesInOrder
    <2> QED
      BY <2>9, <2>10
  <1>13. CASE \E reports \in BOOLEAN : Edit(reports)
    <2>1. PICK reports \in BOOLEAN : Edit(reports)
      BY <1>13
    <2>2. /\ rhand = << >> /\ phand = << >> /\ rhand' = << >> /\ phand' = << >>
          /\ UNCHANGED <<chan, wbuf, toChild, writes, inputOpen, wpc>>
      BY <1>0, <2>1 DEF Edit, Hands
    <2>3. Line' = Line
      BY <2>2 DEF Line
    <2>4. /\ Waiting = replies /\ replies \in Seq(Nat) /\ asked \in Nat
          /\ asked + 1 \in Nat /\ << >> \in Seq(Nat)
      BY <2>2, WaitingType, ConcatEmptySeq
    <2>5. CASE reports
      <3> DEFINE w == <<asked + 1>>
      <3>1. w \in Seq(Nat) /\ Len(w) = 1 /\ \A i \in 1..Len(w) : w[i] = asked + i
        BY <2>4
      <3>2. asked' = asked + 1 /\ replies' = Append(replies, asked + 1)
        BY <2>1, <2>5 DEF Edit
      <3>3. replies' = replies \o w
        BY <2>4, <3>2, AppendIsConcat
      <3> HIDE DEF w
      <3>4. Waiting' = Waiting \o w
        <4>1. replies' \in Seq(Nat)
          BY <2>4, <3>1, <3>3, ConcatProperties
        <4> QED
          BY <2>2, <2>4, <3>3, <4>1, ConcatEmptySeq DEF Waiting
      <3> QED
        BY <1>0, <2>2, <2>3, <3>1, <3>2, <3>4, Produced
    <2>6. CASE ~reports
      <3>1. asked' = asked /\ replies' = replies
        BY <2>1, <2>6 DEF Edit
      <3>2. Waiting' = Waiting
        BY <2>2, <3>1 DEF Waiting
      <3> QED
        BY <1>0, <2>2, <2>3, <3>1, <3>2, Kept
    <2> QED
      BY <2>5, <2>6
  <1> QED
    BY <1>2, <1>3, <1>4, <1>5, <1>6, <1>7, <1>8, <1>9, <1>10, <1>11, <1>12, <1>13, Movers

LEMMA InitInput == Init => InputInv
  <1> SUFFICES ASSUME Init PROVE InputInv
    OBVIOUS
  <1>1. << >> \in Seq(Items) /\ << >> \o << >> = << >> /\ Len(<< >>) = 0
    BY EmptySeq, ConcatEmptySeq
  <1>2. Carried /\ Hands
    BY <1>1 DEF Init, Carried, Hands
  <1>3. Line = << >> /\ Waiting = << >> /\ asked = 0 /\ writes = 0
    BY <1>1 DEF Init, Line, Waiting
  <1>4. ASSUME NEW who PROVE CountFrom(<< >>, who, 0) = 0
    <2>1. {j \in 1..0 : << >>[j].from = who} = {}
      OBVIOUS
    <2> QED
      BY <2>1, FS_EmptySet DEF CountFrom
  <1>5. RepliesInOrder /\ WritesInOrder
    BY <1>1, <1>3, <1>4 DEF RepliesInOrder, WritesInOrder, Numbered
  <1> QED
    BY <1>2, <1>5 DEF InputInv

\* The inductive invariant of the input's way to the child.
THEOREM InputHolds == Spec => []InputInv
  <1>1. TypeOK /\ InputInv /\ [Next]_vars => InputInv'
    BY CarriedStep, HandsStep, OrderStep DEF InputInv
  <1> QED
    BY <1>1, InitInput, TypeCorrect, PTL DEF Spec

\* However the reader and the pump drain the engine's replies, the consumer writes
\* and the session ends, the child is sent the replies in the order the engine
\* produced them and the writes in the order they were made, with none missing in
\* between (feed_session, Pump::pump, Pty::write, spawn_writer).
THEOREM InputIsOrdered == Spec => []InputInOrder
  <1>1. InputInv => InputInOrder
    BY DEF InputInv, InputInOrder
  <1> QED
    BY <1>1, InputHolds, PTL
=============================================================================
