----------------------------- MODULE PtyResize -----------------------------
(***************************************************************************)
(* The size protocol of a frame-mode Pty (justerm-pty/src/lib.rs): resize,  *)
(* resize_screen, resize_child and tell_child called by several threads,    *)
(* against the reader, which needs the session's mutex for every chunk, and *)
(* the pump's exit, which closes the pseudo-terminal under the master's.    *)
(*                                                                          *)
(* A size stands for a (cols, rows); Adopt is the engine's widening of a    *)
(* width below MIN_COLUMNS.                                                 *)
(***************************************************************************)
EXTENDS Naturals, FiniteSets

CONSTANTS
    Callers,      \* the consumer's threads
    Sizes,        \* the sizes they ask for
    MinSize,      \* MIN_COLUMNS
    MaxCalls,     \* bound: calls made in a behaviour
    Buffered,     \* chunks the pseudo-terminal buffers
    CloseWaits    \* closing waits until a last frame is written (a ConPTY)

ASSUME ResizeAssumption ==
    /\ Sizes \subseteq Nat /\ MinSize \in Nat /\ MaxCalls \in Nat
    /\ Buffered \in Nat \ {0} /\ CloseWaits \in BOOLEAN
    /\ Callers \cap {"none", "reader", "pump"} = {}

Adopt(n) == IF n < MinSize THEN MinSize ELSE n

VARIABLES
    lock,         \* who holds the session's mutex
    masterLock,   \* who holds the master's
    opened,       \* the pseudo-terminal is open
    engine,       \* the size the engine holds
    pty,          \* the size the pseudo-terminal holds
    moved,        \* Pty::screen_moved
    call,         \* per caller: idle, swap or master (its place in tell_child)
    telling,      \* per caller: the size it tells
    sawMoved,     \* per caller: what it swapped out of `moved'
    shell,        \* running or exited
    kept,         \* chunks buffered
    readerAt,     \* the reader: read or feed
    pumpAt,       \* the pump: run, take, closing, drain, last, done
    unseen,       \* the screen changed size and the child was not notified (history)
    apart,        \* a resize_screen since the last tell (history)
    signals,      \* resize notifications the child got (history)
    calls         \* calls made (history)

resizeVars == <<lock, masterLock, opened, engine, pty, moved, call, telling, sawMoved, shell, kept,
                readerAt, pumpAt, unseen, apart, signals, calls>>
tellVars == <<call, telling, sawMoved, calls>>
sizeVars == <<engine, pty, moved, unseen, apart, signals>>
loopVars == <<shell, kept, readerAt, pumpAt>>

ResizeInit ==
    /\ lock = "none" /\ masterLock = "none" /\ opened = TRUE
    /\ engine \in {Adopt(n) : n \in Sizes} /\ pty = engine
    /\ moved = FALSE /\ unseen = FALSE /\ apart = FALSE /\ signals = 0
    /\ call = [c \in Callers |-> "idle"]
    /\ telling = [c \in Callers |-> engine]
    /\ sawMoved = [c \in Callers |-> FALSE]
    /\ shell = "running" /\ kept = 0 /\ readerAt = "read" /\ pumpAt = "run"
    /\ calls = 0

-----------------------------------------------------------------------------
(* The consumer's calls. *)

\* The engine takes a size: Session::resize under the session's mutex.
ResizeEngine(n) ==
    /\ engine' = Adopt(n)
    /\ unseen' = (unseen \/ engine # Adopt(n))

\* Pty::resize_screen.
ResizeScreen(c, n) ==
    /\ call[c] = "idle" /\ lock = "none" /\ calls < MaxCalls
    /\ ResizeEngine(n)
    /\ moved' = (moved \/ engine # Adopt(n))
    /\ apart' = TRUE
    /\ calls' = calls + 1
    /\ UNCHANGED <<lock, masterLock, opened, pty, signals, call, telling, sawMoved, loopVars>>

\* Mutant of Resize: the session's mutex is given back before the child is told.
ResizeUnlocks(c, n) ==
    /\ call[c] = "idle" /\ lock = "none" /\ calls < MaxCalls
    /\ ResizeEngine(n)
    /\ telling' = [telling EXCEPT ![c] = Adopt(n)]
    /\ call' = [call EXCEPT ![c] = "swap"]
    /\ calls' = calls + 1
    /\ UNCHANGED <<lock, masterLock, opened, pty, moved, apart, signals, sawMoved, loopVars>>

\* Mutant of Resize: the child is told the size asked for.
ResizeTellsAsked(c, n) ==
    /\ call[c] = "idle" /\ lock = "none" /\ calls < MaxCalls
    /\ lock' = c
    /\ ResizeEngine(n)
    /\ telling' = [telling EXCEPT ![c] = n]
    /\ call' = [call EXCEPT ![c] = "swap"]
    /\ calls' = calls + 1
    /\ UNCHANGED <<masterLock, opened, pty, moved, apart, signals, sawMoved, loopVars>>

\* Pty::resize up to tell_child, keeping the session's mutex.
Resize(c, n) ==
    /\ call[c] = "idle" /\ lock = "none" /\ calls < MaxCalls
    /\ lock' = c
    /\ ResizeEngine(n)
    /\ telling' = [telling EXCEPT ![c] = Adopt(n)]
    /\ call' = [call EXCEPT ![c] = "swap"]
    /\ calls' = calls + 1
    /\ UNCHANGED <<masterLock, opened, pty, moved, apart, signals, sawMoved, loopVars>>

\* Pty::resize_child up to tell_child.
ResizeChild(c) ==
    /\ call[c] = "idle" /\ lock = "none" /\ calls < MaxCalls
    /\ lock' = c
    /\ telling' = [telling EXCEPT ![c] = engine]
    /\ call' = [call EXCEPT ![c] = "swap"]
    /\ calls' = calls + 1
    /\ UNCHANGED <<masterLock, opened, sizeVars, sawMoved, loopVars>>

\* tell_child clears the flag before it waits for the master.
TellSwap(c) ==
    /\ call[c] = "swap"
    /\ sawMoved' = [sawMoved EXCEPT ![c] = moved]
    /\ moved' = FALSE
    /\ call' = [call EXCEPT ![c] = "master"]
    /\ UNCHANGED <<lock, masterLock, opened, engine, pty, unseen, apart, signals, telling, calls, loopVars>>

\* Give back what the call holds of the session's mutex.
Return(c) ==
    /\ call' = [call EXCEPT ![c] = "idle"]
    /\ lock' = IF lock = c THEN "none" ELSE lock

\* The child hears of a size that changed from the kernel, and from tell_child itself
\* of one that did not while the screen moved.
Notifies(c) == pty # telling[c] \/ sawMoved[c]

\* The size is set, and the child notified of it.
Tell(c) ==
    /\ call[c] = "master" /\ masterLock = "none" /\ opened
    /\ \/ Notifies(c) /\ signals' = signals + 1 /\ unseen' = FALSE
       \/ ~Notifies(c) /\ UNCHANGED <<signals, unseen>>
    /\ pty' = telling[c]
    /\ apart' = FALSE
    /\ Return(c)
    /\ UNCHANGED <<masterLock, opened, engine, moved, telling, sawMoved, calls, loopVars>>

\* After the exit there is no pseudo-terminal to tell.
TellNobody(c) ==
    /\ call[c] = "master" /\ masterLock = "none" /\ ~opened
    /\ Return(c)
    /\ UNCHANGED <<masterLock, opened, sizeVars, telling, sawMoved, calls, loopVars>>

-----------------------------------------------------------------------------
(* The child, the reader and the pump's exit. *)

ShellWrites ==
    /\ shell = "running" /\ kept < Buffered
    /\ kept' = kept + 1
    /\ UNCHANGED <<lock, masterLock, opened, sizeVars, tellVars, shell, readerAt, pumpAt>>

ShellExits ==
    /\ shell = "running"
    /\ shell' = "exited"
    /\ UNCHANGED <<lock, masterLock, opened, sizeVars, tellVars, kept, readerAt, pumpAt>>

ReaderReads ==
    /\ readerAt = "read" /\ kept > 0
    /\ kept' = kept - 1
    /\ readerAt' = "feed"
    /\ UNCHANGED <<lock, masterLock, opened, sizeVars, tellVars, shell, pumpAt>>

\* feed_session, a whole critical section.
ReaderFeeds ==
    /\ readerAt = "feed" /\ lock = "none"
    /\ readerAt' = "read"
    /\ UNCHANGED <<lock, masterLock, opened, sizeVars, tellVars, shell, kept, pumpAt>>

PumpFindsExit ==
    /\ pumpAt = "run" /\ shell = "exited"
    /\ pumpAt' = "take"
    /\ UNCHANGED <<lock, masterLock, opened, sizeVars, tellVars, shell, kept, readerAt>>

\* drop(lock(&self.master).take()): the guard lives until the drop is done.
PumpTake ==
    /\ pumpAt = "take" /\ masterLock = "none"
    /\ masterLock' = "pump"
    /\ opened' = FALSE
    /\ pumpAt' = "closing"
    /\ UNCHANGED <<lock, sizeVars, tellVars, shell, kept, readerAt>>

\* Mutant of PumpClosed: the guard of the master lives on.
PumpHasClosedKeepsMaster ==
    /\ pumpAt = "closing"
    /\ IF CloseWaits THEN kept < Buffered /\ kept' = kept + 1 ELSE UNCHANGED kept
    /\ pumpAt' = "drain"
    /\ UNCHANGED <<lock, masterLock, opened, sizeVars, tellVars, shell, readerAt>>

PumpHasClosed ==
    /\ pumpAt = "closing"
    /\ IF CloseWaits THEN kept < Buffered /\ kept' = kept + 1 ELSE UNCHANGED kept
    /\ masterLock' = "none"
    /\ pumpAt' = "drain"
    /\ UNCHANGED <<lock, opened, sizeVars, tellVars, shell, readerAt>>

\* The drain ends at the reader's end or after DRAIN_AFTER_EXIT.
PumpDrain ==
    /\ pumpAt = "drain"
    /\ pumpAt' = "last"
    /\ UNCHANGED <<lock, masterLock, opened, sizeVars, tellVars, shell, kept, readerAt>>

\* The last pump and Session::end, then on_exit.
PumpLast ==
    /\ pumpAt = "last" /\ lock = "none"
    /\ pumpAt' = "done"
    /\ UNCHANGED <<lock, masterLock, opened, sizeVars, tellVars, shell, kept, readerAt>>

-----------------------------------------------------------------------------
PumpSteps == PumpFindsExit \/ PumpTake \/ PumpHasClosed \/ PumpDrain \/ PumpLast

ResizeNext ==
    \/ \E c \in Callers :
        \/ \E n \in Sizes : ResizeScreen(c, n) \/ Resize(c, n)
        \/ ResizeChild(c) \/ TellSwap(c) \/ Tell(c) \/ TellNobody(c)
    \/ ShellWrites \/ ShellExits
    \/ ReaderReads \/ ReaderFeeds
    \/ PumpSteps

\* The threads run and no mutex starves one of them for ever.
ResizeFairness ==
    /\ \A c \in Callers : WF_resizeVars(TellSwap(c)) /\ SF_resizeVars(Tell(c) \/ TellNobody(c))
    /\ WF_resizeVars(ReaderReads) /\ SF_resizeVars(ReaderFeeds)
    /\ WF_resizeVars(PumpSteps) /\ SF_resizeVars(PumpTake) /\ SF_resizeVars(PumpLast)

ResizeSpec == ResizeInit /\ [][ResizeNext]_resizeVars /\ ResizeFairness

-----------------------------------------------------------------------------
ResizeTypeOK ==
    /\ lock \in {"none"} \cup Callers /\ masterLock \in {"none", "pump"}
    /\ opened \in BOOLEAN
    /\ engine \in Nat /\ engine >= MinSize /\ pty \in Nat /\ moved \in BOOLEAN
    /\ call \in [Callers -> {"idle", "swap", "master"}]
    /\ telling \in [Callers -> Nat] /\ sawMoved \in [Callers -> BOOLEAN]
    /\ shell \in {"running", "exited"} /\ kept \in 0..Buffered
    /\ readerAt \in {"read", "feed"}
    /\ pumpAt \in {"run", "take", "closing", "drain", "last", "done"}
    /\ unseen \in BOOLEAN /\ apart \in BOOLEAN
    /\ signals \in Nat /\ calls \in 0..MaxCalls

\* "The two never disagree": with no call in the middle and no resize_screen
\* since the last tell, the child has the engine's size, whoever raced whom.
SizesAgree == lock = "none" /\ opened /\ ~apart => pty = engine

\* "The child is only ever told a size the engine adopted".
ToldIsAdopted == [][pty' # pty => pty' = engine]_resizeVars

\* A drag that comes back to the child's size is still signalled: after a tell the
\* child has been notified of every change of the screen before it.
RedrawIsAsked == lock = "none" /\ opened /\ ~apart => ~unseen

\* After a tell the child knows everything it has to know of the screen.
ChildIsTold == SizesAgree /\ RedrawIsAsked

\* "With no size changed since the last tell, it signals nothing".
NoNeedlessSignal == [][signals' # signals => unseen]_resizeVars

\* What the child is told, and when it is signalled, is never made up.
SignalsAreDue == ToldIsAdopted /\ NoNeedlessSignal

\* Every call returns (docs/map/territory/pty.md: the session's mutex is held
\* "across no blocking call").
CallsReturn == \A c \in Callers : (call[c] # "idle") ~> (call[c] = "idle")

\* The pump always runs to the exit.
PumpEnds == (shell = "exited") ~> (pumpAt = "done")

\* Nobody waits for ever: not a caller, and not the pump.
NobodyHangs == CallsReturn /\ PumpEnds
=============================================================================
