------------------------------ MODULE PtyLoop ------------------------------
(***************************************************************************)
(* The frame-mode loop of justerm-pty (justerm-pty/src/lib.rs) around one   *)
(* Session of justerm-core (justerm-core/src/session.rs): the reader, pump  *)
(* and writer threads, and the consumer's calls from threads of its own.    *)
(*                                                                          *)
(* The reader and the pump share the Session behind one mutex (`lock'), and *)
(* everything bound for the child goes through one unbounded channel        *)
(* (`chan').  A critical section is split where it touches state the        *)
(* session's mutex does not guard, so a hand-over to the channel is a step  *)
(* of its own and a consumer's write may come before it.                    *)
(*                                                                          *)
(* Output is a sequence of chunks numbered as they are written; the chunks  *)
(* in Queries ask a question the engine answers with one reply, and every   *)
(* chunk raises one event.                                                  *)
(***************************************************************************)
EXTENDS Naturals, Sequences, FiniteSets

CONSTANTS
    MaxOut,      \* bound: chunks of output the processes on the pty write
    Queries,     \* the chunks that ask for a reply
    PipeCap,     \* chunks the pseudo-terminal buffers before a writer blocks
    MaxWrites,   \* bound: calls of Pty::write
    MaxEdits,    \* bound: the consumer's edits of the session
    Decodes,     \* whether Options::decoder may hold back part of a chunk
    ReadFails    \* whether a read of the output may fail

ASSUME LoopAssumption ==
    /\ MaxOut \in Nat /\ MaxWrites \in Nat /\ MaxEdits \in Nat
    /\ PipeCap \in Nat \ {0}
    /\ Queries \subseteq 1..MaxOut
    /\ Decodes \in BOOLEAN /\ ReadFails \in BOOLEAN

VARIABLES
    child,       \* the child process: running, exited (a zombie) or reaped
    sent,        \* the strongest signal sent to its pid: none, hup or kill
    slave,       \* the processes that hold the pty's slave end open
    pipe,        \* output written and not read
    wrote,       \* chunks written so far
    lock,        \* who holds the session's mutex
    ended,       \* Session::ended
    sink,        \* a frame sink is subscribed
    pending,     \* Engine::frame_pending
    rev,         \* changes made to the engine so far (history)
    shown,       \* the rev of the last frame the sink was sent (history)
    fed,         \* chunks fed to the engine (history)
    replies,     \* replies queued in the engine
    asked,       \* replies the engine has produced so far (history)
    events,      \* events queued in the engine
    rpc,         \* the reader: read, feed, hand, eof, done
    tail,        \* it has left its read loop
    rbuf,        \* output decoded and not yet fed
    rheld,       \* output the decoder holds back
    rhand,       \* replies drained and not yet handed over
    eof,         \* Reading::eof
    readError,   \* Reading::error
    ppc,         \* the pump thread's place in Pump::run
    phand,       \* replies it drained and has not handed over
    batch,       \* events it drained and has not delivered
    exited,      \* ChildState::exited
    childLock,   \* who holds ChildState's mutex: the pump, or a kill that polls or escalates
    timedOut,    \* the drain ran out of DRAIN_AFTER_EXIT (history)
    seen,        \* events given to on_event (history)
    exitError,   \* the read_error of the Exit
    exits,       \* calls of on_exit (history)
    inputOpen,   \* Input still holds its Sender
    chan,        \* the writer's channel
    wpc,         \* the writer: recv, write, closed, stopped
    wbuf,        \* what it is writing
    toChild,     \* what has been written to the child (history)
    writes       \* calls of Pty::write that were accepted

osVars      == <<child, sent, slave, pipe, wrote>>
sessionVars == <<ended, sink, pending, rev, shown, fed, replies, asked, events>>
readerVars  == <<rpc, tail, rbuf, rheld, rhand, eof, readError>>
pumpVars    == <<ppc, phand, batch, exited, childLock, timedOut, seen, exitError, exits>>
inputVars   == <<inputOpen, chan, wpc, wbuf, toChild, writes>>
vars        == <<osVars, lock, sessionVars, readerVars, pumpVars, inputVars>>

Chunks    == 1..MaxOut
ReaderPC  == {"read", "feed", "hand", "eof", "done"}
PumpPC    == {"sleep", "lock", "hand", "events", "poll", "mark", "close", "drain",
              "last", "lastEvents", "exit", "done"}
WriterPC  == {"recv", "write", "closed", "stopped"}

FromEngine(s)   == [i \in 1..Len(s) |-> [from |-> "engine", n |-> s[i]]]
CountUpTo(n)    == [i \in 1..n |-> i]
WriterListens   == wpc \in {"recv", "write"}

-----------------------------------------------------------------------------
\* Pty::spawn with a session that has no sink yet.  The child may have put
\* another process on the pty, which can outlive it.
Init ==
    /\ child = "running" /\ sent = "none"
    /\ slave \in {{"child"}, {"child", "grandchild"}}
    /\ pipe = << >> /\ wrote = 0
    /\ lock = "none"
    /\ ended = FALSE /\ sink = FALSE /\ pending = TRUE
    /\ rev = 0 /\ shown = 0 /\ fed = << >>
    /\ replies = << >> /\ asked = 0 /\ events = << >>
    /\ rpc = "read" /\ tail = FALSE /\ rbuf = << >> /\ rheld = << >> /\ rhand = << >>
    /\ eof = FALSE /\ readError = FALSE
    /\ ppc = "sleep" /\ phand = << >> /\ batch = << >>
    /\ exited = FALSE /\ childLock = "none" /\ timedOut = FALSE
    /\ seen = << >> /\ exitError = FALSE /\ exits = 0
    /\ inputOpen = TRUE /\ chan = << >> /\ wpc = "recv" /\ wbuf = << >>
    /\ toChild = << >> /\ writes = 0

-----------------------------------------------------------------------------
(* The processes on the pseudo-terminal. *)

ChildWrite ==
    /\ slave # {} /\ wrote < MaxOut /\ Len(pipe) < PipeCap
    /\ wrote' = wrote + 1
    /\ pipe' = Append(pipe, wrote + 1)
    /\ UNCHANGED <<child, sent, slave, lock, sessionVars, readerVars, pumpVars, inputVars>>

ChildExit ==
    /\ child = "running"
    /\ child' = "exited"
    /\ slave' = slave \ {"child"}
    /\ UNCHANGED <<sent, pipe, wrote, lock, sessionVars, readerVars, pumpVars, inputVars>>

GrandchildExit ==
    /\ "grandchild" \in slave
    /\ slave' = slave \ {"grandchild"}
    /\ UNCHANGED <<child, sent, pipe, wrote, lock, sessionVars, readerVars, pumpVars, inputVars>>

-----------------------------------------------------------------------------
(* The Session's methods, as effects on its variables under its mutex. *)

\* Session::flush: the pending frame goes out when there is a sink to take it.
Flush(pend, r) ==
    IF pend /\ sink
    THEN shown' = r /\ pending' = FALSE
    ELSE pending' = pend /\ UNCHANGED shown

\* How many of the chunks `cs' ask for a reply.
Asks(cs) == Cardinality({i \in 1..Len(cs) : cs[i] \in Queries})

\* Engine::feed of chunks `cs', and the edit that drains the replies: `drained'.
FeedAndDrain(cs, drained) ==
    /\ fed' = fed \o cs
    /\ events' = events \o cs
    /\ asked' = asked + Asks(cs)
    /\ drained = replies \o [i \in 1..Asks(cs) |-> asked + i]
    /\ replies' = << >>
    /\ rev' = rev + Len(cs)
    /\ pending' = TRUE
    /\ UNCHANGED <<ended, sink, shown>>

\* write_back: to the channel, or nowhere once the input is closed or its
\* receiver is gone.
WriteBack(items) ==
    chan' = IF inputOpen /\ WriterListens THEN chan \o items ELSE chan

-----------------------------------------------------------------------------
(* The reader thread. *)

\* One read of some of what is buffered, and its decoding.
ReaderRead ==
    /\ rpc = "read" /\ pipe # << >>
    /\ \E n \in 1..Len(pipe), held \in (IF Decodes THEN {0, 1} ELSE {0}) :
        LET data == rheld \o SubSeq(pipe, 1, n)
            cut  == Len(data) - held
        IN  /\ rbuf'  = SubSeq(data, 1, cut)
            /\ rheld' = SubSeq(data, cut + 1, Len(data))
            /\ pipe'  = SubSeq(pipe, n + 1, Len(pipe))
    /\ rpc' = "feed"
    /\ UNCHANGED <<child, sent, slave, wrote, lock, sessionVars, tail, rhand, eof,
                   readError, pumpVars, inputVars>>

\* Mutant of LeaveLoop: Decode::finish is not called.
LeaveLoopUnfinished ==
    /\ tail' = TRUE
    /\ rbuf' = << >> /\ rheld' = << >>
    /\ rpc' = "feed"

\* The loop is over: what the decoder holds is fed last.
LeaveLoop ==
    /\ tail' = TRUE
    /\ rbuf' = rheld /\ rheld' = << >>
    /\ rpc' = "feed"

ReaderEof ==
    /\ rpc = "read" /\ pipe = << >> /\ slave = {}
    /\ LeaveLoop
    /\ UNCHANGED <<osVars, lock, sessionVars, rhand, eof, readError, pumpVars, inputVars>>

ReaderFail ==
    /\ ReadFails
    /\ rpc = "read"
    /\ readError' = TRUE
    /\ LeaveLoop
    /\ UNCHANGED <<osVars, lock, sessionVars, rhand, eof, pumpVars, inputVars>>

\* Mutant of ReaderFeed: the mutex is released before the replies are handed over.
ReaderFeedUnlocks ==
    /\ rpc = "feed" /\ lock = "none" /\ ~ended /\ rbuf # << >>
    /\ FeedAndDrain(rbuf, rhand')
    /\ rbuf' = << >>
    /\ rpc' = "hand"
    /\ UNCHANGED <<osVars, lock, tail, rheld, eof, readError, pumpVars, inputVars>>

\* feed_session, which takes the mutex.  An ended session takes nothing.
ReaderFeed ==
    /\ rpc = "feed" /\ lock = "none" /\ ~ended /\ rbuf # << >>
    /\ lock' = "reader"
    /\ FeedAndDrain(rbuf, rhand')
    /\ rbuf' = << >>
    /\ rpc' = "hand"
    /\ UNCHANGED <<osVars, tail, rheld, eof, readError, pumpVars, inputVars>>

ReaderFeedsNothing ==
    /\ rpc = "feed" /\ lock = "none" /\ ~ended /\ rbuf = << >>
    /\ rpc' = IF tail THEN "eof" ELSE "read"
    /\ UNCHANGED <<osVars, lock, sessionVars, tail, rbuf, rheld, rhand, eof, readError, pumpVars, inputVars>>

ReaderRefused ==
    /\ rpc = "feed" /\ lock = "none" /\ ended
    /\ IF tail THEN rpc' = "eof" /\ rbuf' = << >> /\ UNCHANGED <<tail, rheld>>
               ELSE LeaveLoop
    /\ UNCHANGED <<osVars, lock, sessionVars, rhand, eof, readError, pumpVars, inputVars>>

\* The hand-over, still under the mutex.
ReaderHandOver ==
    /\ rpc = "hand"
    /\ WriteBack(FromEngine(rhand))
    /\ rhand' = << >>
    /\ lock' = "none"
    /\ rpc' = IF tail THEN "eof" ELSE "read"
    /\ UNCHANGED <<osVars, sessionVars, tail, rbuf, rheld, eof, readError, pumpVars,
                   inputOpen, wpc, wbuf, toChild, writes>>

ReaderDone ==
    /\ rpc = "eof"
    /\ eof' = TRUE
    /\ rpc' = "done"
    /\ UNCHANGED <<osVars, lock, sessionVars, tail, rbuf, rheld, rhand, readError, pumpVars, inputVars>>

-----------------------------------------------------------------------------
(* The pump thread: Pump::run. *)

PumpDue ==
    /\ ppc = "sleep"
    /\ ppc' = "lock"
    /\ UNCHANGED <<osVars, lock, sessionVars, readerVars, phand, batch, exited, childLock,
                   timedOut, seen, exitError, exits, inputVars>>

PumpNotDue ==
    /\ ppc = "sleep"
    /\ ppc' = "poll"
    /\ UNCHANGED <<osVars, lock, sessionVars, readerVars, phand, batch, exited, childLock,
                   timedOut, seen, exitError, exits, inputVars>>

\* Session::pump under the mutex.
PumpPump ==
    /\ ppc = "lock" /\ lock = "none"
    /\ lock' = "pump"
    /\ Flush(pending, rev)
    /\ phand' = replies /\ replies' = << >>
    /\ batch' = events  /\ events' = << >>
    /\ ppc' = "hand"
    /\ UNCHANGED <<osVars, ended, sink, rev, fed, asked, readerVars, exited, childLock, timedOut,
                   seen, exitError, exits, inputVars>>

PumpHandOver ==
    /\ ppc = "hand"
    /\ WriteBack(FromEngine(phand))
    /\ phand' = << >>
    /\ lock' = "none"
    /\ ppc' = "events"
    /\ UNCHANGED <<osVars, sessionVars, readerVars, batch, exited, childLock, timedOut, seen,
                   exitError, exits, inputOpen, wpc, wbuf, toChild, writes>>

\* on_event, outside the mutex.
PumpEvents ==
    /\ ppc = "events"
    /\ seen' = seen \o batch
    /\ batch' = << >>
    /\ ppc' = "poll"
    /\ UNCHANGED <<osVars, lock, sessionVars, readerVars, phand, exited, childLock, timedOut,
                   exitError, exits, inputVars>>

\* Mutant of PumpPoll: the mutex is released before the exit is marked.
PumpPollUnlocks ==
    /\ ppc = "poll" /\ childLock = "none"
    /\ IF child # "running"
       THEN child' = "reaped" /\ ppc' = "mark"
       ELSE ppc' = "sleep" /\ UNCHANGED child
    /\ UNCHANGED <<sent, slave, pipe, wrote, lock, sessionVars, readerVars, phand, batch,
                   exited, childLock, timedOut, seen, exitError, exits, inputVars>>

\* try_wait under the child's mutex: a child that has exited is reaped by it, and the
\* status of one that a kill has reaped is the one std kept.
PumpPoll ==
    /\ ppc = "poll" /\ childLock = "none"
    /\ IF child # "running"
       THEN child' = "reaped" /\ childLock' = "pump" /\ ppc' = "mark"
       ELSE ppc' = "sleep" /\ UNCHANGED <<child, childLock>>
    /\ UNCHANGED <<sent, slave, pipe, wrote, lock, sessionVars, readerVars, phand, batch,
                   exited, timedOut, seen, exitError, exits, inputVars>>

PumpMark ==
    /\ ppc = "mark"
    /\ exited' = TRUE
    /\ childLock' = "none"
    /\ ppc' = "close"
    /\ UNCHANGED <<osVars, lock, sessionVars, readerVars, phand, batch, timedOut, seen, exitError,
                   exits, inputVars>>

\* The input is closed, which ends the writer once its channel is empty.
PumpClose ==
    /\ ppc = "close"
    /\ inputOpen' = FALSE
    /\ ppc' = "drain"
    /\ UNCHANGED <<osVars, lock, sessionVars, readerVars, phand, batch, exited, childLock, timedOut,
                   seen, exitError, exits, chan, wpc, wbuf, toChild, writes>>

\* The wait for the reader's end, DRAIN_AFTER_EXIT at most.
PumpDrained ==
    /\ ppc = "drain" /\ eof
    /\ exitError' = readError
    /\ ppc' = "last"
    /\ UNCHANGED <<osVars, lock, sessionVars, readerVars, phand, batch, exited, childLock, timedOut,
                   seen, exits, inputVars>>

\* Mutant of PumpDrainTimeout: the wait has no bound.
PumpDrainForever == FALSE

PumpDrainTimeout ==
    /\ ppc = "drain" /\ ~eof
    /\ timedOut' = TRUE
    /\ exitError' = readError
    /\ ppc' = "last"
    /\ UNCHANGED <<osVars, lock, sessionVars, readerVars, phand, batch, exited, childLock, seen,
                   exits, inputVars>>

\* The last pump, whose replies have nowhere to go, and Session::end.
PumpLast ==
    /\ ppc = "last" /\ lock = "none"
    /\ Flush(pending, rev)
    /\ replies' = << >>
    /\ batch' = events /\ events' = << >>
    /\ ended' = TRUE
    /\ ppc' = "lastEvents"
    /\ UNCHANGED <<osVars, lock, sink, rev, fed, asked, readerVars, phand, exited, childLock,
                   timedOut, seen, exitError, exits, inputVars>>

PumpLastEvents ==
    /\ ppc = "lastEvents"
    /\ seen' = seen \o batch
    /\ batch' = << >>
    /\ ppc' = "exit"
    /\ UNCHANGED <<osVars, lock, sessionVars, readerVars, phand, exited, childLock, timedOut,
                   exitError, exits, inputVars>>

\* Mutant of PumpExit: the thread comes back to report the exit again.
PumpExitTwice ==
    /\ ppc = "exit"
    /\ exits' = exits + 1
    /\ ppc' = IF exits = 0 THEN "exit" ELSE "done"
    /\ UNCHANGED <<osVars, lock, sessionVars, readerVars, phand, batch, exited, childLock, timedOut,
                   seen, exitError, inputVars>>

PumpExit ==
    /\ ppc = "exit"
    /\ exits' = exits + 1
    /\ ppc' = "done"
    /\ UNCHANGED <<osVars, lock, sessionVars, readerVars, phand, batch, exited, childLock, timedOut,
                   seen, exitError, inputVars>>

-----------------------------------------------------------------------------
(* The writer thread. *)

WriterRecv ==
    /\ wpc = "recv" /\ chan # << >>
    /\ wbuf' = <<Head(chan)>> /\ chan' = Tail(chan)
    /\ wpc' = "write"
    /\ UNCHANGED <<osVars, lock, sessionVars, readerVars, pumpVars, inputOpen, toChild, writes>>

WriterWrite ==
    /\ wpc = "write"
    /\ toChild' = toChild \o wbuf /\ wbuf' = << >>
    /\ wpc' = "recv"
    /\ UNCHANGED <<osVars, lock, sessionVars, readerVars, pumpVars, inputOpen, chan, writes>>

\* A failed write (or an encoder that panics) drops the receiver and all it held.
WriterFail ==
    /\ wpc = "write"
    /\ wpc' = "stopped"
    /\ wbuf' = << >> /\ chan' = << >>
    /\ UNCHANGED <<osVars, lock, sessionVars, readerVars, pumpVars, inputOpen, toChild, writes>>

WriterEnd ==
    /\ wpc = "recv" /\ chan = << >> /\ ~inputOpen
    /\ wpc' = "closed"
    /\ UNCHANGED <<osVars, lock, sessionVars, readerVars, pumpVars, inputOpen, chan, wbuf, toChild, writes>>

-----------------------------------------------------------------------------
(* The consumer's calls. *)

\* Pty::write; it takes no session lock and is refused once the input is closed.
Write ==
    /\ writes < MaxWrites /\ inputOpen /\ WriterListens
    /\ writes' = writes + 1
    /\ chan' = Append(chan, [from |-> "user", n |-> writes + 1])
    /\ UNCHANGED <<osVars, lock, sessionVars, readerVars, pumpVars, inputOpen, wpc, wbuf, toChild>>

Edits == rev - Len(fed)

\* Mutant of Edit: an edit of an ended session waits for a pump.
EditWaits(reports) ==
    /\ lock = "none" /\ Edits < MaxEdits
    /\ rev' = rev + 1 /\ pending' = TRUE
    /\ asked'   = IF reports THEN asked + 1 ELSE asked
    /\ replies' = IF reports THEN Append(replies, asked + 1) ELSE replies
    /\ UNCHANGED <<osVars, lock, ended, sink, shown, fed, events, readerVars, pumpVars, inputVars>>

\* Session::edit (a scroll, a selection, a resize, a colour report): the frame
\* waits for the pump, or goes out at once on an ended session.
Edit(reports) ==
    /\ lock = "none" /\ Edits < MaxEdits
    /\ rev' = rev + 1
    /\ asked'   = IF reports THEN asked + 1 ELSE asked
    /\ replies' = IF reports THEN Append(replies, asked + 1) ELSE replies
    /\ IF ended THEN Flush(TRUE, rev + 1) ELSE pending' = TRUE /\ UNCHANGED shown
    /\ UNCHANGED <<osVars, lock, ended, sink, fed, events, readerVars, pumpVars, inputVars>>

\* Session::subscribe sends a Full frame at once.
Subscribe ==
    /\ lock = "none"
    /\ sink' = TRUE /\ shown' = rev /\ pending' = FALSE
    /\ UNCHANGED <<osVars, lock, ended, rev, fed, replies, asked, events, readerVars, pumpVars, inputVars>>

SendPending ==
    /\ lock = "none"
    /\ Flush(pending, rev)
    /\ UNCHANGED <<osVars, lock, ended, sink, rev, fed, replies, asked, events, readerVars, pumpVars, inputVars>>

\* Pty::terminate, and dropping the Pty: the mutex that guards `exited' is held over
\* the whole of the child's kill.  On Unix that is three steps or more: a SIGHUP to the
\* pid, whatever has become of it (a signal that finds no process ends the kill as an
\* exit does), ...
Terminate ==
    /\ childLock = "none" /\ ~exited
    /\ sent' = IF sent = "none" THEN "hup" ELSE sent
    /\ childLock' = "kill"
    /\ UNCHANGED <<child, slave, pipe, wrote, lock, sessionVars, readerVars, ppc, phand, batch,
                   exited, timedOut, seen, exitError, exits, inputVars>>

\* ... polls for about 250 ms, which reap a child that has exited and end the kill
\* while `exited' stays as it was, ...
KillSeesExit ==
    /\ childLock = "kill" /\ child # "running"
    /\ child' = "reaped"
    /\ childLock' = "none"
    /\ UNCHANGED <<sent, slave, pipe, wrote, lock, sessionVars, readerVars, ppc, phand, batch,
                   exited, timedOut, seen, exitError, exits, inputVars>>

\* ... and, when none of them finds the exit, a SIGKILL, which std's own record of the
\* status keeps from a reaped child.  On Windows the kill is this step alone, on a
\* handle that names no other process.
KillEscalates ==
    /\ childLock = "kill" /\ child # "reaped"
    /\ sent' = "kill"
    /\ childLock' = "none"
    /\ UNCHANGED <<child, slave, pipe, wrote, lock, sessionVars, readerVars, ppc, phand, batch,
                   exited, timedOut, seen, exitError, exits, inputVars>>

-----------------------------------------------------------------------------
Reader ==
    \/ ReaderRead \/ ReaderEof \/ ReaderFail \/ ReaderFeed \/ ReaderFeedsNothing
    \/ ReaderRefused \/ ReaderHandOver \/ ReaderDone

Pump ==
    \/ PumpDue \/ PumpNotDue \/ PumpPump \/ PumpHandOver \/ PumpEvents \/ PumpPoll
    \/ PumpMark \/ PumpClose \/ PumpDrained \/ PumpDrainTimeout \/ PumpLast
    \/ PumpLastEvents \/ PumpExit

Kill == KillSeesExit \/ KillEscalates

Next ==
    \/ ChildWrite \/ ChildExit \/ GrandchildExit
    \/ Reader
    \/ Pump
    \/ WriterRecv \/ WriterWrite \/ WriterFail \/ WriterEnd
    \/ Write \/ \E reports \in BOOLEAN : Edit(reports)
    \/ Subscribe \/ SendPending \/ Terminate \/ Kill

ReaderRuns  == ReaderRead \/ ReaderEof \/ ReaderHandOver \/ ReaderDone
ReaderLocks == ReaderFeed \/ ReaderFeedsNothing \/ ReaderRefused
PumpLocks   == PumpPump \/ PumpLast \/ PumpPoll

\* The scheduler runs the two threads and a kill, the mutexes starve neither thread,
\* the pump's period elapses and a child that was sent a SIGKILL dies.
\* The writer gets no fairness: a child that never reads its input may block it for ever.
Fairness ==
    /\ WF_vars(ReaderRuns) /\ SF_vars(ReaderLocks)
    /\ WF_vars(Pump) /\ SF_vars(PumpLocks) /\ SF_vars(PumpDue)
    /\ WF_vars(Kill) /\ WF_vars(sent = "kill" /\ ChildExit)

Spec == Init /\ [][Next]_vars /\ Fairness

-----------------------------------------------------------------------------
TypeOK ==
    /\ child \in {"running", "exited", "reaped"} /\ sent \in {"none", "hup", "kill"}
    /\ slave \subseteq {"child", "grandchild"}
    /\ pipe \in Seq(Chunks) /\ wrote \in 0..MaxOut
    /\ lock \in {"none", "reader", "pump"}
    /\ ended \in BOOLEAN /\ sink \in BOOLEAN /\ pending \in BOOLEAN
    /\ rev \in Nat /\ shown \in Nat /\ fed \in Seq(Chunks)
    /\ replies \in Seq(Nat) /\ asked \in Nat /\ events \in Seq(Chunks)
    /\ rpc \in ReaderPC /\ tail \in BOOLEAN
    /\ rbuf \in Seq(Chunks) /\ rheld \in Seq(Chunks) /\ rhand \in Seq(Nat)
    /\ eof \in BOOLEAN /\ readError \in BOOLEAN
    /\ ppc \in PumpPC /\ phand \in Seq(Nat) /\ batch \in Seq(Chunks)
    /\ exited \in BOOLEAN /\ childLock \in {"none", "pump", "kill"} /\ timedOut \in BOOLEAN
    /\ seen \in Seq(Chunks) /\ exitError \in BOOLEAN /\ exits \in {0, 1}
    /\ inputOpen \in BOOLEAN /\ wpc \in WriterPC /\ writes \in 0..MaxWrites

\* All that went into the channel and was not dropped, in the order the child gets it.
Line == toChild \o wbuf \o chan

\* How many of the first k items of a line are from `who', and whether they are
\* numbered in turn.
CountFrom(line, who, k) == Cardinality({j \in 1..k : line[j].from = who})
Numbered(line, who) ==
    \A i \in 1..Len(line) : line[i].from = who => line[i].n = CountFrom(line, who, i)

Waiting == rhand \o phand \o replies

\* The replies the child is sent are the first the engine produced, in order.  While
\* the input is open every other one is in exactly one place on its way and they
\* follow on in turn: the reader's and the pump's drains never overtake each other
\* (feed_session, Pump::pump).
RepliesInOrder ==
    /\ Numbered(Line, "engine")
    /\ inputOpen /\ wpc # "stopped" =>
        LET handed == CountFrom(Line, "engine", Len(Line))
        IN  /\ asked = handed + Len(Waiting)
            /\ \A i \in 1..Len(Waiting) : Waiting[i] = handed + i

\* What the child is sent of the user's own input is what was written, in order,
\* whatever replies come between.
WritesInOrder ==
    /\ Numbered(Line, "user")
    /\ wpc # "stopped" => CountFrom(Line, "user", Len(Line)) = writes

\* Both streams keep their order through the one channel they share.
InputInOrder == RepliesInOrder /\ WritesInOrder

\* Every event of what the engine was fed is on its way to on_event or was given to
\* it, once and in order; on_exit finds none left.
EventsOnce ==
    /\ seen \o batch \o events = fed
    /\ exits = 1 => seen = fed

\* The output the engine was fed is what was written, in order, without a gap.
OutputInOrder == \A i \in 1..Len(fed) : fed[i] = i

\* "The rest of the output is read": when the drain saw the reader's end and no read
\* failed, on_exit comes after every chunk ever written has been fed.
OutputComplete ==
    exits = 1 /\ ~timedOut /\ ~exitError => fed = CountUpTo(wrote)

\* From the pty to the engine to on_event: nothing is lost, repeated or reordered on
\* the way, and on_exit comes after all of it.
OutputArrives == OutputInOrder /\ OutputComplete /\ EventsOnce

\* frame_pending and the sink: a subscribed sink with nothing pending shows the
\* engine as it is, and an ended session keeps nothing back from it.
SinkIsCurrent ==
    sink => /\ ~pending => shown = rev
            /\ ended => ~pending

\* The pump's poll has found the exit.
ExitFound == ppc = "mark" \/ exited

\* The steps that send the child's pid a signal: a kill begins, and a kill ends that
\* has not found the exit.
SendsHup  == childLock # "kill" /\ childLock' = "kill"
SendsKill == childLock = "kill" /\ childLock' # "kill" /\ child' # "reaped"

\* A reaped child's pid may belong to another process.  Nothing is sent to it once the
\* pump's poll has found the exit (ChildState::exited is set under the mutex
\* Pty::terminate takes).  Before that a reaped child's pid is sent a SIGHUP in one
\* case only: an earlier terminate's kill has reaped it by its own polling, and a second
\* terminate, or the Drop, comes before the pump's poll.
SignalsStop ==
    [][ /\ SendsHup \/ SendsKill => ~ExitFound
        /\ SendsHup /\ child = "reaped" => sent # "none" ]_vars

\* After on_exit nothing is fed, observed, delivered or reported again.
NothingAfterExit == [][exits = 1 => UNCHANGED <<fed, seen, exits, exitError>>]_vars

\* What a child that is gone, and an exit that was reported, put an end to.
ExitIsFinal == SignalsStop /\ NothingAfterExit

\* An exit is always reported, whatever the child left unread or a grandchild
\* holds open, and however the consumer uses the session.
ExitIsReported == (child # "running") ~> (exits = 1)

\* Pty::terminate ends in on_exit, whether the child heeds the SIGHUP or not.
TerminateEndsIt == (sent # "none") ~> (exits = 1)

\* A reply is handed over soon after it is produced, whoever drains it, unless the
\* child has gone (its input is closed).
RepliesAreHandedOver ==
    (rhand \o phand \o replies # << >>) ~> (rhand \o phand \o replies = << >> \/ exited)

\* Every way a session can end leads to its on_exit, and no reply stays behind.
SessionsEnd == ExitIsReported /\ TerminateEndsIt /\ RepliesAreHandedOver

\* What docs/map/territory/pty.md:139 says, "Never signal a reaped child".  The case
\* SignalsStop excepts breaks it: ChildExit, Terminate, KillSeesExit, Terminate.
NeverSignalReaped == [][SendsHup \/ SendsKill => child # "reaped"]_vars

\* What justerm-pty/src/lib.rs:273 says: nothing reaches the sink after on_exit, so no
\* frame follows it.  (A frame is a later `shown'.)
NoFrameAfterExit == [][exits = 1 /\ sink => shown' = shown]_vars
=============================================================================
