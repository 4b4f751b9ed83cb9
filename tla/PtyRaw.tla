------------------------------- MODULE PtyRaw -------------------------------
(***************************************************************************)
(* A Raw mode Pty (justerm-pty/src/lib.rs): the reader hands each chunk to  *)
(* the consumer's RawSink, which may pause it; resume, terminate and the    *)
(* pump's exit release the pause.  `state' is the mutex of RawState; a      *)
(* paused reader waits on the condition variable `wake', which gives the    *)
(* mutex back while it waits.                                               *)
(*                                                                          *)
(* Os selects what the operating system does at the end (external):         *)
(*   linux    the reader sees the end once no process holds the slave;      *)
(*   macos    a child cannot finish exiting while its output is unread, and *)
(*            unread output is discarded when the last slave is closed, so  *)
(*            this process holds one until the drain is done;               *)
(*   windows  closing the pseudo-terminal waits until a last frame is       *)
(*            written, and ends the output.                                 *)
(***************************************************************************)
EXTENDS Naturals, Sequences

CONSTANTS
    Os,            \* the systems a behaviour may run on
    MaxOut,        \* bound: chunks the processes on the pty write
    PipeCap,       \* chunks the pseudo-terminal buffers
    MaxResumes     \* bound: calls of Pty::resume

ASSUME RawAssumption ==
    /\ Os \subseteq {"linux", "macos", "windows"}
    /\ MaxOut \in Nat /\ PipeCap \in Nat \ {0} /\ MaxResumes \in Nat

VARIABLES
    os,          \* the system this behaviour runs on
    child,       \* running, exiting (macOS), exited or reaped
    killed,      \* it has been sent a kill
    slave,       \* who holds the slave end: child, grandchild, us
    master,      \* the pseudo-terminal is open
    pipe,        \* output written and not read
    wrote,       \* chunks written
    late,        \* another process held the pty when the drain, or the held slave, ended (history)
    out,         \* chunks the sink was handed (history)
    paused, draining, ended,    \* RawState
    rpc,         \* the reader: read, feed, wait, eof, done
    rbuf,        \* the chunk it has read
    woken,       \* the condition variable has been notified since it began to wait
    resuming,    \* a resume has cleared the pause and not yet notified
    resumes,     \* calls of resume (history)
    eof,         \* Reading::eof
    ppc,         \* the pump's place in Pump::run
    exits        \* calls of on_exit (history)

osVars     == <<os, child, killed, slave, pipe, wrote>>
rawVars    == <<paused, draining, ended>>
readerVars == <<out, rpc, rbuf, eof>>
callVars   == <<resuming, resumes>>
vars == <<osVars, master, rawVars, readerVars, woken, callVars, ppc, late, exits>>

\* The slave end this process keeps (start_with's held_slave).
HeldSlave(o) == IF o = "macos" THEN {"us"} ELSE {}

Init ==
    /\ os \in Os
    /\ child = "running" /\ killed = FALSE
    /\ \E others \in SUBSET {"grandchild"} : slave = {"child"} \cup others \cup HeldSlave(os)
    /\ master = TRUE /\ pipe = << >> /\ wrote = 0 /\ late = FALSE
    /\ out = << >> /\ paused = FALSE /\ draining = FALSE /\ ended = FALSE
    /\ rpc = "read" /\ rbuf = << >> /\ woken = FALSE
    /\ resuming = FALSE /\ resumes = 0 /\ eof = FALSE
    /\ ppc = "run" /\ exits = 0

-----------------------------------------------------------------------------
(* The processes on the pseudo-terminal. *)

Writers == slave \ ({"us"} \cup (IF child = "exiting" THEN {"child"} ELSE {}))

ChildWrite ==
    /\ Writers # {} /\ (os = "windows" => master)
    /\ wrote < MaxOut /\ Len(pipe) < PipeCap
    /\ wrote' = wrote + 1
    /\ pipe' = Append(pipe, wrote + 1)
    /\ UNCHANGED <<os, child, killed, slave, master, rawVars, readerVars, woken,
                   callVars, ppc, late, exits>>

\* Closing a slave; on macOS the last one takes the unread output with it.
Close(who, next) ==
    /\ slave' = slave \ {who}
    /\ IF os = "macos" /\ slave' = {}
       THEN pipe' = << >> ELSE UNCHANGED pipe
    /\ child' = next

\* With a slave held, macOS holds the child's exit until its output is read.
ChildExit ==
    /\ \/ child = "running" /\ "us" \notin slave /\ Close("child", "exited")
       \/ child = "running" /\ "us" \in slave /\ child' = "exiting"
          /\ UNCHANGED <<slave, pipe>>
       \/ child = "exiting" /\ pipe = << >> /\ Close("child", "exited")
    /\ UNCHANGED <<os, killed, wrote, master, rawVars, readerVars, woken, callVars, ppc, late, exits>>

GrandchildExit ==
    /\ "grandchild" \in slave
    /\ Close("grandchild", child)
    /\ UNCHANGED <<os, killed, wrote, master, rawVars, readerVars, woken, callVars, ppc, late, exits>>

\* What a read reports as the end of the output.
AtEnd == pipe = << >> /\ IF os = "windows" THEN ~master /\ ppc # "closing" ELSE slave = {}

-----------------------------------------------------------------------------
(* The reader. *)

ReaderRead ==
    /\ rpc = "read" /\ pipe # << >>
    /\ rbuf' = <<Head(pipe)>> /\ pipe' = Tail(pipe)
    /\ rpc' = "feed"
    /\ UNCHANGED <<os, child, killed, slave, wrote, master, rawVars, out, woken,
                   eof, callVars, ppc, late, exits>>

\* The held bytes and the decoder's are fed after the loop: here there are none.
ReaderEof ==
    /\ rpc = "read" /\ AtEnd
    /\ rpc' = "eof"
    /\ UNCHANGED <<osVars, master, rawVars, out, rbuf, woken, eof, callVars, ppc, late, exits>>

\* feed_raw: the sink takes the chunk and may ask for a pause; the wait begins
\* without giving the mutex back in between.
ReaderFeed ==
    /\ rpc = "feed" /\ ~ended
    /\ out' = out \o rbuf
    /\ \E pause \in BOOLEAN :
        /\ paused' = (paused \/ pause)
        /\ rpc' = IF paused' /\ ~draining THEN "wait" ELSE "read"
    /\ rbuf' = << >> /\ woken' = FALSE
    /\ UNCHANGED <<osVars, master, draining, ended, eof, callVars, ppc, late, exits>>

ReaderRefused ==
    /\ rpc = "feed" /\ ended
    /\ rbuf' = << >> /\ rpc' = "eof"
    /\ UNCHANGED <<osVars, master, rawVars, out, woken, eof, callVars, ppc, late, exits>>

\* A woken reader asks again whether to wait.
ReaderWakes ==
    /\ rpc = "wait" /\ woken
    /\ woken' = FALSE
    /\ rpc' = IF paused /\ ~draining /\ ~ended THEN "wait" ELSE "read"
    /\ UNCHANGED <<osVars, master, rawVars, out, rbuf, eof, callVars, ppc, late, exits>>

ReaderDone ==
    /\ rpc = "eof"
    /\ eof' = TRUE /\ rpc' = "done"
    /\ UNCHANGED <<osVars, master, rawVars, out, rbuf, woken, callVars, ppc, late, exits>>

-----------------------------------------------------------------------------
(* The consumer. *)

\* Pty::resume clears the pause under the mutex and notifies after it.
Resume ==
    /\ resumes < MaxResumes /\ ~resuming
    /\ paused' = FALSE /\ resuming' = TRUE
    /\ resumes' = resumes + 1
    /\ UNCHANGED <<osVars, master, draining, ended, readerVars, woken, ppc, late, exits>>

ResumeNotifies ==
    /\ resuming
    /\ resuming' = FALSE
    /\ woken' = TRUE
    /\ UNCHANGED <<osVars, master, rawVars, readerVars, resumes, ppc, late, exits>>

\* Pty::terminate: the pause ends, then the child is killed unless it has been reaped.
\* The kill's signals and its polling are PtyLoop's; here it is what makes the child end.
Terminate ==
    /\ draining' = TRUE /\ woken' = TRUE
    /\ killed' = (killed \/ child # "reaped")
    /\ UNCHANGED <<os, child, slave, pipe, wrote, master, paused, ended, readerVars,
                   callVars, ppc, late, exits>>

-----------------------------------------------------------------------------
(* The pump. *)

PumpSeesExit ==
    /\ ppc = "run" /\ child = "exited"
    /\ child' = "reaped"
    /\ ppc' = "release"
    /\ UNCHANGED <<os, killed, slave, pipe, wrote, master, rawVars, readerVars, woken,
                   callVars, late, exits>>

\* Mutant of PumpRelease: the paused reader is not released before the close.
PumpReleaseSkipped ==
    /\ ppc = "release"
    /\ ppc' = "close"
    /\ UNCHANGED <<osVars, master, rawVars, readerVars, woken, callVars, late, exits>>

\* A paused reader is released before the pseudo-terminal closes.
PumpRelease ==
    /\ ppc = "release"
    /\ draining' = TRUE /\ woken' = TRUE
    /\ ppc' = "close"
    /\ UNCHANGED <<osVars, master, paused, ended, readerVars, callVars, late, exits>>

PumpClose ==
    /\ ppc = "close"
    /\ master' = FALSE
    /\ ppc' = IF os = "windows" THEN "closing" ELSE "idle"
    /\ UNCHANGED <<osVars, rawVars, readerVars, woken, callVars, late, exits>>

\* ClosePseudoConsole writes a last frame, once there is room for it.
PumpClosed ==
    /\ ppc = "closing"
    /\ Len(pipe) < PipeCap
    /\ pipe' = Append(pipe, wrote + 1) /\ wrote' = wrote + 1
    /\ ppc' = "idle"
    /\ UNCHANGED <<os, child, killed, slave, master, rawVars, readerVars, woken,
                   callVars, late, exits>>

\* Mutant of PumpFreesSlave: the held slave goes at once.
PumpFreesSlaveAtOnce ==
    /\ ppc = "idle"
    /\ Close("us", child)
    /\ late' = ("us" \in slave /\ "grandchild" \in slave)
    /\ ppc' = "drain"
    /\ UNCHANGED <<os, killed, wrote, master, rawVars, readerVars, woken, callVars, exits>>

\* The held slave, if any, is closed once the reader sits in a read that does not
\* return: everything written has been read.  The deadline only cuts the wait short
\* when another process keeps the reader busy.
PumpFreesSlave ==
    /\ ppc = "idle"
    /\ \/ "us" \notin slave
       \/ rpc = "read" /\ pipe = << >>
       \/ "grandchild" \in slave
    /\ Close("us", child)
    /\ late' = ("us" \in slave /\ "grandchild" \in slave)
    /\ ppc' = "drain"
    /\ UNCHANGED <<os, killed, wrote, master, rawVars, readerVars, woken, callVars, exits>>

PumpDrained ==
    /\ ppc = "drain" /\ eof
    /\ ppc' = "end"
    /\ UNCHANGED <<osVars, master, rawVars, readerVars, woken, callVars, late, exits>>

\* DRAIN_AFTER_EXIT runs out only on a reader that cannot go on: one that waits, or
\* that has read everything and sees no end.
PumpDrainTimeout ==
    /\ ppc = "drain" /\ ~eof
    /\ \/ rpc = "wait" /\ ~woken
       \/ rpc = "read" /\ pipe = << >> /\ ~AtEnd
    /\ late' = (late \/ (os # "windows" /\ slave # {}))
    /\ ppc' = "end"
    /\ UNCHANGED <<osVars, master, rawVars, readerVars, woken, callVars, exits>>

PumpEnd ==
    /\ ppc = "end"
    /\ ended' = TRUE /\ woken' = TRUE
    /\ ppc' = "exit"
    /\ UNCHANGED <<osVars, master, paused, draining, readerVars, callVars, late, exits>>

PumpExit ==
    /\ ppc = "exit"
    /\ exits' = exits + 1
    /\ ppc' = "done"
    /\ UNCHANGED <<osVars, master, rawVars, readerVars, woken, callVars, late>>

-----------------------------------------------------------------------------
Reader == ReaderRead \/ ReaderEof \/ ReaderFeed \/ ReaderRefused \/ ReaderWakes \/ ReaderDone
Pump ==
    \/ PumpSeesExit \/ PumpRelease \/ PumpClose \/ PumpClosed \/ PumpFreesSlave
    \/ PumpDrained \/ PumpDrainTimeout \/ PumpEnd \/ PumpExit

Next ==
    \/ ChildWrite \/ ChildExit \/ GrandchildExit
    \/ Reader \/ Pump
    \/ Resume \/ ResumeNotifies \/ Terminate

\* The threads run, a resume that has begun is finished, and a killed child dies.
Fairness ==
    /\ WF_vars(Reader) /\ WF_vars(Pump) /\ WF_vars(ResumeNotifies)
    /\ WF_vars((killed \/ child = "exiting") /\ ChildExit)

Spec == Init /\ [][Next]_vars /\ Fairness

-----------------------------------------------------------------------------
TypeOK ==
    /\ os \in Os /\ child \in {"running", "exiting", "exited", "reaped"} /\ killed \in BOOLEAN
    /\ slave \subseteq {"child", "grandchild", "us"} /\ master \in BOOLEAN
    /\ pipe \in Seq(1..(MaxOut + 1)) /\ wrote \in 0..(MaxOut + 1) /\ late \in BOOLEAN
    /\ out \in Seq(1..(MaxOut + 1))
    /\ paused \in BOOLEAN /\ draining \in BOOLEAN /\ ended \in BOOLEAN
    /\ rpc \in {"read", "feed", "wait", "eof", "done"}
    /\ rbuf \in Seq(1..(MaxOut + 1)) /\ woken \in BOOLEAN
    /\ resuming \in BOOLEAN /\ resumes \in 0..MaxResumes /\ eof \in BOOLEAN
    /\ ppc \in {"run", "release", "close", "closing", "idle", "drain", "end", "exit", "done"}
    /\ exits \in {0, 1}

\* Flow::Pause: "Nothing the child wrote is lost".  Unless another process still held
\* the pty, on_exit finds everything handed to the sink, in order, paused or not.
NothingLost ==
    TypeOK /\ (exits = 1 /\ ~late => out = [i \in 1..wrote |-> i])

\* After on_exit nothing reaches the sink.
NothingAfterExit == [][exits = 1 => UNCHANGED <<out, exits>>]_vars

\* A resume is not lost: a reader whose pause it cleared reads on.
ResumeIsNotLost == (rpc = "wait" /\ ~paused) ~> (rpc # "wait")

\* terminate (and dropping the Pty) ends a pause and ends in on_exit, on every system.
TerminateEndsIt == killed ~> (exits = 1)

\* An exited child is reported, paused or not.
ExitIsReported == (child \in {"exited", "reaped"}) ~> (exits = 1)

\* Every way a session can end leads to its on_exit, and that is the last of it; until
\* then no reader waits on a pause that is over.
SessionsEnd == ExitIsReported /\ TerminateEndsIt /\ NothingAfterExit /\ ResumeIsNotLost
=============================================================================
