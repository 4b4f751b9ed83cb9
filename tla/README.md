# justerm in TLA+

TLA+ models of [justerm](../src/README.md), a terminal engine in Rust with a web
front end: what each part promises, model-checked with TLC on small instances and,
for the parts whose order of events is hardest to test (the three protocols of
`justerm-pty`, the frames and the mirror that applies them, the index of markers, the
search box, the input method, the cells and wide pairs of a screen, the cursor and the two screens), proved with TLAPS for every value of the
constants.

Run a model with `tlc -config <X>.cfg <Module>.tla` and a proof with
`tlapm <Module>Proofs.tla`. `PROJECT.json` lists the components, the runs, the
source lines behind every definition, a mutant for each property (a plausible bug
of the code that the property catches), the findings, the hazards and the theorems.

## 1. The system

Bytes flow one way and frames the other:

```
 child <-> pseudo-terminal <-> justerm-pty --feed--> justerm-core (Engine, Session)
                                   ^  |                     |  frame / ack
                    write, resize, |  | on_output, on_event |  (wire codec)
                    terminate      |  | on_exit             v
                                  consumer <------- justerm-web: CellMirror, MarkerIndexCache, ...
                                                            |
                                                     justerm-renderer (WebGL atlas, grids)
```

### Inventory

| Component | State it keeps | Operations | Interacts with | What is hard | Correct when |
|---|---|---|---|---|---|
| **PTY loop, Frame mode** (`justerm-pty/src/lib.rs`) | child, reaped flag, master, input channel, `Reading` | reader, pump and writer threads; `write`, `terminate`; the exit sequence | Session under one mutex; the child through a bounded pipe; `on_output`, `on_tick`, `on_event`, `on_exit` | three threads, two mutexes, an exit raced by everything, a child that never reads, a grandchild that never exits | output fed once and in order, replies and input in order, events once, `on_exit` exactly once, last, and always |
| **PTY size** (same file) | engine size, pty size, `screen_moved` | `resize`, `resize_screen`, `resize_child` | engine, kernel, pump (closes the master) | calls from any thread racing each other and the exit; two mutexes held at once | the two sizes agree, every redraw is asked for, every call returns |
| **PTY loop, Raw mode** (same file) | `RawState` (paused, draining, ended), a condition variable | sink output with `Flow::Pause`, `resume`, `terminate`, the exit drain | consumer's sink; three operating systems' ends of output | a paused reader at the exit; a wake-up missed; macOS discards unread output | nothing lost, nothing after the end, no hang |
| **Session** (`session.rs`) | engine, sink, `ended`, sizes | `edit`, `subscribe`, `feed`, `pump`, `resize`, `end`, `send_pending` | PTY loop and consumer | edits after the end, a sink attached late | the sink is current |
| **Damage, frames, viewport** (`term.rs`, `damage.rs`, `viewport.rs`) | grid, history, per-row damage, one scroll op, display offset | every verb that writes or moves rows; `frame`, `reset_damage` | the mirror, through frames | damage recorded before a scroll is in other coordinates after it; several scrolls between two frames; history evicted under a scrolled view | a mirror that applies each frame shows the screen |
| **Anchors** (`markers.rs`, `tracked.rs`, `term/selection.rs`) | absolute lines of markers, tracked points, selection endpoints; marker epoch | created by the stream or the consumer; moved by eviction, region scrolls, resize | the grid's movers; events to the consumer | each mover must move every anchor the same way | an anchor stays on its content or is dropped and announced |
| **MarkerIndexCache** (`marker-index.ts`) | held index, epoch adopted, pull in flight, pending operations | `sync`, `onMarkerCreated`, `onMarkerDisposed`, `lineOf` | engine, through frames, events and a query, each on a channel of its own | the pull's answer crosses frames and events | never a wrong line, and never silent for ever |
| **Row editing, wide glyphs** (`term.rs`, `cell.rs`) | cells of packed words, wide pairs, clusters, per-row link and mark tables, wrap artefacts | write, join, erase, insert, delete, shift | damage, links | every verb can split a pair, strand an artefact or leave a table entry behind | no half pair, every change damaged, a cell keeps its own attributes |
| **Reflow** (`grid.rs`, `Term::resize`) | rows, history, cursor, saved cursor, tracked points | `reflow`, `reflow_pane`, `resize_keep_from` | anchors, prompts | wide pairs at the cut, kept prompt rows, points past the text | text kept whole, points after the glyph they came after |
| **VT dispatch, modes, replies** | cursor, margins, tabs, two screens with their saved cursors and keyboard flags | one verb per sequence | everything above | three alternate-screen modes in any pairing, resets and resizes in between | the alternate screen leaves no trace, the cursor stays on the screen |
| **Search, logical lines, selection text** (`walk.rs`, `search.rs`, `selection.rs`) | a selection, matches | walks over wrapped rows | host, clipboard | several walks of the same rows, each with code of its own | what is copied is what is shown; what is found is the text |
| **Settled-cell paint** (`paint.rs`) | a change watch per screen | report changed lines, take paints | a host that answers late | rows move, leave and reflow before the answer | a line is painted as told or reported again |
| **Input encoding** (`input.rs`) | none | key, mouse, paste to bytes | modes | a dozen modes at once | no two keys of different meaning share bytes once negotiated, a paste stays inside its brackets |
| **Wire codec** (`serialize.rs`, `justerm-wasm-decode`) | none | encode, decode, flatten | frames | field widths | decode inverts encode or the frame is cut to fit |
| **Glyph atlas** (`glyph_cache.rs`, `glyph_resolve.rs`) | LRU of slots per region, eviction count | resolve, pack | all grids of a configuration | a slot reused under a cell already drawn | a cell shows its own glyph |
| **Context loss, registry, surface** (`context_loss.rs`, `webgl/*`, `terminal-surface.ts`) | loss epoch, pending rebuild, grids, atlases per configuration, density | lost, restored, deadline, frame, resize, density | browser events, timers, frame loop | events and timers in any order; work put off while the context is gone | drawn from live objects of what was asked last, told once per loss |
| **Frame grid, preedit** (`frame_grid.rs`, `preedit.rs`, `suggestion.rs`) | retained cells; a run over the row | `apply`, `patch` | frames, IME | order inside a frame, refused frames; pairs cut by a run | the grid shows the screen; no half pair is drawn |
| **Built-in glyphs** (`builtin.rs`) | none | one bitmap per character and cell size | atlas | rounding | lines meet, mosaics tile |
| **CellMirror** (`cell-mirror.ts`) | cells, wraps | `applyFrame` | frames | shift, then spans | equals the screen |
| **IME** (`composition.ts`) | flags, a range of a textarea | composition events, keydown, deferred reads | the browser | the text is read in a later task | text sent once, in order |
| **Search box** (`search.ts`) | query, count, index, epoch | search, next, prev, clear, debounced re-search | an asynchronous backend | late and superseded answers | the box is the engine's |
| **Links** (`link-tracker.ts`, `links.ts`) | cached lines, the hovered link | pointer, frames, answers | an asynchronous backend | answers for older screens | a link opened is a link shown |
| **Pointer, selection** (`pointer.ts`, `selection.ts`) | a gesture, a drag | press, move, release, scroll ticks | engine, application | releases lost, modes changed in mid-gesture | every gesture is whole |
| **Announcer** (`accessibility*.ts`) | pending output, echo queue, timers | frames, keys, timers | a screen reader | debounce, cap, echoes | output is said once, in order, and in time |

`PROJECT.json` lists the same components, those left out with the reason, and the
hazards of the code at their lines.

## 2. The modules

| Module | Models | Proofs |
|---|---|---|
| `PtyLoop` | Frame mode: reader, pump, writer, Session, consumer | `PtyLoopProofs` |
| `PtyResize` | the size protocol | `PtyProofs` |
| `PtyRaw` | Raw mode, on three systems | `PtyProofs` |
| `StartupQuery` | the watch for ConPTY's first query | |
| `FrameStream` | damage, scroll op, viewport, composed with the mirror | `FrameProofs` |
| `MarkerFeed` | abstract: what the engine promises the holder of a marker index | |
| `Anchors` | markers, tracked points and the selection under every verb that moves rows; implements `MarkerFeed` | `AnchorsProofs` (`KeepsTheFeed`) |
| `MarkerIndex` | the web cache of the index, over any engine `MarkerFeed` allows | `WidgetProofs` |
| `RowEdit`, `PackedCell` | the cells of a screen under every verb; the bits of one cell | `RowEditProofs` |
| `Modes` | cursor, margins, tabs, the two screens and what they save | `ModesProofs` |
| `Reflow` | a resize of the primary screen | |
| `BufferText` | selection, words, logical lines, search, accessible text | |
| `SettledLines` | the change watch and the paint of settled lines | |
| `Wire`, `Input` | frames to bytes and back; keys, mouse and pastes to bytes | |
| `GlyphAtlas` | the atlas shared by grids | |
| `RenderSurface` | the context, its loss and what is drawn with | `FrameProofs` |
| `FrameGrid`, `Layers`, `Preedit`, `BuiltinGlyphs` | what the renderer keeps of frames, what lies over the text and beside it on the ruler, what it draws into a row, and what it draws by itself | |
| `Composition`, `SearchBox`, `LinkTracker` | the asynchronous controllers of the widget | `WidgetProofs` |
| `Pointer`, `Announcer` | gestures; what a screen reader is told | `WidgetProofs` (`Pointer`) |
| `MCTerminal`, `MCBuffers`, `MCBrowser` | TLC instances of the modules that have no run of their own | |
| `Iteration` | nothing of the code: lemmas about a step repeated, which five proof modules share | itself |

A variable has the name of the field it stands for where there is one; a program
counter (`rpc`, `ppc`, `wpc`; `readerAt` and `pumpAt` in `PtyResize`) names a thread's place in its loop; a variable
marked *(history)* exists only to state properties. Each operator whose comment
says *Mutant of X* is a bug of X that no specification uses: `PROJECT.json`
pairs it with the property that catches it.

### PtyLoop

State: the child (running, a zombie, reaped), the processes that hold the slave
end, the pipe of unread output, the Session (`ended`, `sink`, `frame_pending`, the
engine reduced to what was fed, its queued replies and events, and a revision
number for "the screen changed"), the three threads and their local buffers, the
unbounded input channel, and the exit's results.

A chunk of output is its number; the chunks in `Queries` ask for a reply, and each
chunk raises one event. `Decodes` lets the decoder hold back the tail of a chunk,
as an incomplete character does. A critical section of the code is one action when
all it touches is guarded by the session's mutex, and is split where it touches
something else (the channel, the child's mutex), with `lock` held in between.
`ReaderFeed`/`ReaderHandOver` are `feed_session`; `PumpDue` .. `PumpExit` are
`Pump::run` and `Pump::pump` in the order of the code: pump, deliver, poll,
mark reaped, close the master, drain, last pump and `end`, last events, `on_exit`.
The end of the output is a Unix pty's: the reader sees it when nobody holds the
slave.

`Terminate` is `Pty::terminate` and the `Drop` that calls it again, any number of
times. The child's `kill` is portable-pty's, modelled from lib.rs:653 and
docs/map/territory/pty.md:139-144: a SIGHUP (`Terminate`), polls of the child, the first
of which to find its exit reaps it (`KillSeesExit`), and a SIGKILL when none does
(`KillEscalates`). The child's mutex is held throughout (`childLock = "kill"`), so the
pump cannot poll in between, and `exited` stays as it was. `sent` is the strongest
signal the child was sent.

### PtyResize

The same loop reduced to what the size protocol touches, with two mutexes: the
session's (`lock`) and the master's. `resize` and `resize_child` hold the first
while `tell_child` takes the second; the pump holds the second while it drops the
pseudo-terminal. `CloseWaits` says whether that drop waits for the reader (a
ConPTY) or not (Unix). `SIGWINCH` is counted in `signals`, both the kernel's own
and `tell_child`'s; `unseen` is a change of the screen the child has not been
notified of.

### PtyRaw

`RawState`'s three flags, the condition variable (`woken`: notified since the
reader began to wait), the pump's exit sequence, and for each system what ends the
output: no slave held (Linux), the same with output discarded at the last close
and an exit that waits for its output to be read (macOS, where `held_slave` keeps
one end), the pseudo-terminal closed after a last frame (ConPTY).

### FrameStream

One state variable `t` holds the record a verb rewrites, as `&mut self` does, and
the verbs are functions from state to state composed as the code composes them
(`WriteGlyph` calls `WrapLine`, which calls `LinefeedInner`, which calls `ShiftRegion`,
`RecordScroll` and `PushHistory`). A cell's value is where the mirror has the same
cell, or `Fresh` when it changed since the last frame, so the screen's contents
are reduced to what the mirror must learn; acknowledging a frame renumbers it.
`MirrorHas` is `applyFrame`: the shift first, then the spans.

### MarkerFeed, Anchors, MarkerIndex

The engine keeps absolute lines for markers, tracked points and the selection; a
consumer holds a copy of the marker lines and keeps it current from three signals:
`evicted_total` (everything moved by that much), `marker_epoch` (something moved
otherwise: pull again) and the birth and death events. `MarkerFeed` states the
contract between the two as a specification of its own, with three kinds of step:
`Retire` (lines leave the front, some markers die), `Birth` (one is registered, the
cap may retire others) and `Disturb` (the epoch moves, the lines may be anything).
Each announces its births and deaths. It is the hinge of the two other modules:
`Anchors` implements it (`KeepsTheFeed`, with `INSTANCE ... WITH`), and `MarkerIndex`
extends it and lets the engine take any of its steps, so that the cache is checked
against every engine that keeps the promise and not against one script.

In `Anchors` the state is the record `term`, and a verb is a function of it composed
of the fixups the code calls, in the code's order: `Accrue` is `linefeed_inner`'s
primary branch (`ShiftBelow`, the push, then `LinesLeftTheFront`), `RotateOnce` one
turn of `scroll_region_lines`. A row is not text but the set of tags of the holders
put on it. The verbs move rows; the fixups move recorded lines; the invariants
compare the two. What the code reads from the text is left open: how many
trailing rows a shrink trims (`Trims`), where the cursor's logical line begins
(`Clear`), what select-all finds. Two parts of the record are not in the code: an
`Adopt`ed endpoint (one whose row went and was clamped belongs, from then on, to the
row it was clamped to) and `stranded` (the marks a resize saturated: a finding).

In `MarkerIndex` frames and events travel on two first-in first-out channels and
pulls on a third, in any relative order: the host owns the transports (ADR-0017).
A pull is evaluated at one instant and lands at another, or is refused; `Reset`
orphans one that is out. The optional fields (`adopted`, `seen`) are sets of at
most one epoch.

### RowEdit, PackedCell, Modes, Reflow

A cell of `RowEdit` is its kind (blank, glyph, the two halves of a pair), the
artefact bit and whether it reads the row's tables; `own` and `ownMarks` are ghosts
that travel with the glyph, so that a shift which moves a cell without its table entry shows.
`returned` is one too: a parked cursor was restored (`RestoreCursor`), which may now wrap a
row it was not parked on.
`view` is what a consumer that applies the damage holds. `PackedCell` checks the
words themselves: every setter against a record of independent attributes.
`Modes` has a record for the terminal with both screens' saved state, and the ghost
`entry`, what `?1049h` found. `Reflow` follows `reflow` by its passes: join into
logical lines, trim, split into segments, lay out, map the points; glyphs are numbered so that loss,
repetition and order show.

### BufferText, SettledLines, Wire, Input, StartupQuery

`BufferText` has a few buffers built to hold every kind of seam (a wrapped pair, its
artefact, a mark, the border of history and screen) and lets every selection, word
and search be asked of them; the definitions `Seen` and `Holds` are the references.
`SettledLines` plays the host: what the engine reported (`told`) is answered at any
later time. `Wire` encodes over a radix of 5 instead of 256, so that a u16 wraps at
25 and every limit is inside the instance; bytes may also be cut. `Input` encodes
one event under one set of modes; its properties compare pairs of events. The events
include a digit and Enter of both keyboard and keypad, with modifiers and releases, in
both keypad modes, and a set of all eight modifiers.
`StartupQuery` reads an output in every split.

### GlyphAtlas, RenderSurface, FrameGrid, Layers, Preedit, BuiltinGlyphs

`GlyphAtlas` keeps, for every packed cell, the slot and the glyph that was in it when
it was packed; the invariant compares it with the atlas as it is. A frame may have more
rows than one: a wide lead stranded in the last column leaves no right half to the next row. In
`RenderSurface` an object is known by the generation of the context it was made on,
and a dead context makes objects of no generation, silently, as WebGL does. The
browser's events are dispatched later than they happen. `FrameGrid` drives the
renderer's grid and the mirror with the same frames. `Preedit` draws into a copy of
the row. `BuiltinGlyphs` is the arithmetic of the shapes in exact integers.

`Layers` follows a decoration from its registration on a marker to the pixels: the
registry, its projection on the rows of a frame, the words it crosses to the renderer
in, and the order in which a cell's background and ink are made of decorations,
selection, matches, the hovered word and the composition. The same registry and the
matches give the ruler its marks, which are drawn on elements the scrollbar keeps and
reuses. The host forwards the events of disposed markers before the next frame is
painted, the index answers all of the shown buffer's markers rightly or none
(`MarkerIndex`), the page paints after every step, minimum contrast is off, and only
markers of the primary screen are decorated.

### Composition, SearchBox, LinkTracker, Pointer, Announcer

Each has the controller's fields as one record and what surrounds it (the browser's
event order, a backend with queues of questions and answers, the engine's screen, an
application) as external actions. A deferred task or an awaited answer is a
continuation in a queue, which runs in a step of its own.

## 3. Runs, bounds and what they show

| Run | Question | Bounds |
|---|---|---|
| `pty_loop` | any interleaving that loses, repeats or reorders output, replies, input or events, or signals a child whose exit was found | 2 chunks, 1 query, 1-chunk pipe, 1 write, 1 edit, any number of terminates, decoder and read failures on; 2.7 million states |
| `pty_loop_live` | does every exit and every terminate reach `on_exit`; are replies handed over | 1 chunk, 1 edit |
| `pty_resize` | sizes, redraws, and no call or pump that stays blocked | 2 callers, 3 sizes of which one below the minimum, 4 calls; the close of the pseudo-terminal does not wait (finding 2 is the one that does) |
| `pty_raw` | pause, resume and terminate around the exit, on three systems | 3 chunks, 2-chunk pipe, 2 resumes |
| `frame_stream` | is a frame enough, after any verbs | 3 rows, 2 columns, 3 lines of history, 5 verbs, acks anywhere |
| `frame_stream_scrolled` | finding: live rows of a scrolled view | 3 verbs |
| `anchors` | does every verb move or release exactly the holders on the rows it moves; is each call a step of `MarkerFeed` | screens of 1 to 3 rows, 1 line of history, 2 markers at most (the cap), 2 holders at once, any number of calls |
| `marker_index` | wrong lines, dead markers that come back, an index that stays unusable | 1 marker on 2 lines, 2 epochs, 3 engine steps, 1 frame in transit, 1 refusal or 1 reset |
| `terminal` | `Modes`, `Reflow`, `SettledLines`, `BufferText`: see below | in `MCTerminal`; 359,141 states |
| `buffers` | `RowEdit`, `Wire`, `PackedCell`, `Input`, `StartupQuery`, `Pointer`, `Announcer` | in `MCBuffers`; 561,377 states |
| `browser` | `Composition`, `SearchBox`, `LinkTracker`, `RenderSurface`, `GlyphAtlas`, `BuiltinGlyphs`, `FrameGrid`, `Layers`, `Preedit` | in `MCBrowser`; 899,326 states |
| `search_stale` | finding: an old count put back | as `browser` |

The last four runs check components that share no state: the initial state chooses
one (`part`), its actions run, the variables of the others rest at a value. A property
names the part it speaks of. So one run asks one question of each of its parts, and
the sizes of their state spaces add instead of multiplying. `Modes`, `RowEdit`,
`PackedCell`, `Pointer`, `SearchBox`, `LinkTracker`, `Composition` and `RenderSurface`, which have theorems, are extended by their run's module, not
instantiated: their constants have their values in the configuration, TLC evaluates
their assumptions, and the property the run checks is the very definition the theorem
speaks of.

| Property of `terminal` | What it says |
|---|---|
| `CursorIsSound` | cursor, slots, margins and tabs are on the screen, and a position report sent back leads back |
| `AltIsTransparent` | a program that enters and leaves the alternate screen leaves cursor, pen, modes and keyboard flags as they were |
| `ResizeKeepsAll` | a resize loses, splits and invents no text; cursor, saved cursor and marks stay after the glyph they came after |
| `EveryLineGetsItsPaint` | a line written to is reported, or an answer to an earlier report will be taken |
| `PaintedAsTold` | a paint colours the line it was computed for, and nothing else |
| `CopyIsTheHighlight` | the copied text is that of the highlighted cells, which hold whole pairs; a word is expanded to its ends |
| `SearchFindsTheText` | the matches are the occurrences in the logical lines, across wraps, none twice, and their spans are their cells |

| Property of `buffers` | What it says |
|---|---|
| `PairsAreWhole` | no verb leaves half a pair, an artefact without a wrap, or one without its pair (but for three cases: findings 8, 12 and 13) |
| `CellsAreTold` | a cell carries its own link and marks wherever it moves, and the damage tells a consumer of every change |
| `FramesArrive` | decode gives the frame that was encoded, rejects one that was cut, and `flatten` shows the same |
| `AttributesAreIndependent` | after any setters the words read as a record of independent attributes |
| `InputIsTold` | what the application negotiated distinguishes the events it reports, but for the keypad's, whose modifiers and release no protocol says and which in numeric mode are their character's (finding 15); a mouse report carries its cell; a paste does not end its brackets |
| `SplitsAreUnseen` | however the output is split, the query is answered once and the rest handed on unchanged |
| `PointerIsFollowed` | a drag ends, its selection is what the controller believes, no release is owed to an application, changes are announced |
| `ReaderIsTold` | what is printed is said once and in order, no later than the cap, without the echo of what was typed |

| Property of `browser` | What it says |
|---|---|
| `CommitsInOrder` | every committed letter is sent once and in order |
| `BoxIsTheEngines` | when all is answered, the box's current match and ruler are the engine's; a search left or rejected shows nothing |
| `LinksAreCurrent` | a link that is hovered or opened is one the mirror shows there, and no two answers held are about a row |
| `LossesAreSurvived` | a frame is drawn from objects of this context for what was asked last, and a loss is told once |
| `GridsAreRight` | once the renders have settled every packed cell shows its glyph; only a frame too large is refused |
| `GlyphsFit` | lines of neighbouring cells meet, blocks and mosaics tile, mirrored characters are mirrored |
| `FramesAreShown` | grid and mirror show the screen after any frames and refusals; no index leaves the grid; decorations, selection and matches are painted in their order over the text they belong to, and marked on the ruler |
| `RunsAreWhole` | preedit and suggestion draw whole pairs, hide nothing else, and the caret is on the row |

Why the bounds are enough. In the loop, two chunks are the fewest with one in the
decoder or in the pipe behind another, one of them with a reply; a write and two
replies, the chunk's and the edit's, fall in any order (several writes keep theirs
through one channel, which `InputIsOrdered` proves for any number); a pipe of one chunk
blocks its writer. A terminate is not counted: it comes again after any other step. With two callers every pair of racing calls occurs, and four calls
make a drag that goes away and back with a racing resize in it. Three rows are the fewest
with a region, a row inside it and one outside, and the viewport of three rows of
history is wholly off the live screen; five verbs reach two scrolls of different
regions with damage before, between and after them. A row of three columns holds a
pair that fits, one that wraps, and a column beside it; a cluster tail of two is
one below and one at its limit. A resize between an odd and an even width cuts every
pair somewhere, and back; one line of history makes every line that scrolls off
evict another. Two grids on an atlas of three narrow slots and one wide one evict
each other; two losses give a deadline that lands in the loss after its own. Three
sets of matches (more, fewer, none) and two user calls give every crossing of an
answer with a later question. Each property has a mutant that the run's own bounds
catch, so none is vacuous there.

`Anchors` has no bound on the number of calls: `VIEW Undated` leaves the counters,
the events already announced and the numbers of the ids (not their order) out of a
state's identity. No guard of the terminal reads those, so two states with one view
have the same future but for an offset, and `MaxCount` is above every value the
instance reaches. A view is sound for the invariants, which do not depend on what
it hides, and for `KeepsTheFeed`, a property of single steps, each of which is
checked from one representative of its state. Three rows and one line of history give a region with rows
above and below it, an eviction at the cap and a resize that evicts; two holders
give each pair of kinds (mark, point, selection) once, and two markers meet the cap.

In `MarkerIndex` one marker is enough for the properties, which speak of one id at
a time, except that a drifted count needs births and deaths of others to cancel
out: instances with two ids, three steps, a refusal and a reset, too large to keep,
were explored once (8.9 million states) and agree. Three engine steps make a
birth, a death and a disturbance in any order, with a frame before and after each.

Deadlock is checked everywhere but in `PtyResize`, `FrameStream` and the three
composed runs, which really stop at their bounds: in `PtyLoop` and `PtyRaw` a finished system still has an
action that changes nothing, a terminal of `Anchors` can always be reset, and the
frames of `MarkerIndex` never stop.

### Fairness

* The threads run: weak fairness of the reader's, pump's and callers' steps.
* A mutex does not starve a thread that waits while others take turns: strong
  fairness of each acquisition. The holders do not block while they hold it, but
  for the ConPTY's close (finding 2).
* The pump's period elapses (`PumpDue`, strong since the child's exit and the
  timer alternate). A kill under way goes on to its end, a child that was sent a SIGKILL
  dies, and repeated kills do not keep the child's mutex from the pump's poll. A
  child need not heed the SIGHUP.
* The writer has none: a child that never reads its input blocks it for ever, and
  every liveness property must hold all the same.
* `PtyRaw`'s `DRAIN_AFTER_EXIT` (500 ms) runs out only on a reader that cannot go
  on. A reader that is merely slow may lose output to the timeout, and no property
  is claimed then.

* In `MarkerIndex` frames keep coming and are synced, events in transit arrive,
  and a pull that is out is evaluated and answered (or refused, which no fairness
  requires): the host's event loop and transport. The engine owes nothing, and
  after a refusal `Settles` asks for nothing: the retry is the host's (#746).
* The parts of `terminal`, `buffers` and `browser` are safety properties, and need no
  fairness: "once all is answered" is a condition on the state, not a promise.

## 4. Proofs

Every theorem holds for all values of the constants that its module's named assumption
admits, and for behaviours of any length. Each rests on an inductive invariant, which TLC
checked on a small instance before it was proved.

`PtyLoopProofs` proves, for any number of chunks, queries, writes,
edits and any pipe, every property of the run `pty_loop`: `TypeOK`, `OutputArrives`,
`SinkIsCurrent`, `ExitIsFinal` and, in its last section, `InputInOrder`. The
assumptions are `LoopAssumption` (the bounds are naturals, the pipe holds a chunk).
Of these only `SinkIsCurrent` is inductive by itself. The invariant is `Inv == TypeOK /\ Control /\ Empty /\ Delivered /\ Flow /\ Drained`:

* `Control` ties the pump's place to the child's mutex, `exited`, `ended` and `exits`; it says that a kill
  holds the mutex only before `exited`, and that a child is reaped by the pump, or by a kill that sent a signal;
* `Empty` says which buffers are empty at which place;
* `Delivered` is `seen \o batch \o events = fed`;
* `Flow` says that what was fed, what the reader has decoded, what the decoder
  holds back and what is in the pipe, put together, are `1 .. wrote` in order, which a
  refused or failed read may only cut at the tail;
* `Drained` says what `eof` without an error implies: no slave, empty pipe.

Each action has a step for each conjunct it can disturb; the concatenations of
`Flow` are lemmas of their own. `OutputArrives` is the conjunction of
`OutputInOrder`, `OutputComplete` and `EventsOnce`, and `ExitIsFinal` of
`SignalsStop` and `NothingAfterExit`; each part has a theorem. `SignalsStop` is what the
mutex guarantees: no signal once the pump's poll found the exit, and before it none to a reaped
child but by a second terminate after a kill that reaped it. `NeverSignalReaped`, without that
exception, is what the docs say, and finding 14.

`InputInOrder` numbers the items of a line by counting: an item carries how many of
its origin the line has up to it, and the waiting replies go on from there. Its
invariant `InputInv` adds `Carried` (what the channel may hold) and `Hands`: drained
replies are in hand only of the thread that holds the session's mutex, the writer has
an item only while it writes, and the input is closed before the last pump. The
argument is that a hand-over moves the front of the waiting replies to the end of the
line: only one thread has replies in hand, so they are the front. Three lemmas carry
it: the start of a numbered line is numbered (a failed write drops the rest), items of
another origin change nothing, and items numbered on from the count keep it numbered.

`PtyProofs` proves of `PtyResize`, for any set of callers and sizes: `ResizeTypeOK`, `ChildIsTold`
(`SizesAgree`, `RedrawIsAsked`) and `SignalsAreDue` (`ToldIsAdopted`, `NoNeedlessSignal`),
from `SizeInv`: `Exclusive` (at
most the holder of the session's mutex is inside a call), `Telling` (what a caller
is about to tell is the engine's size), `Marked` (an unseen change has left its mark
in `moved` or in the caller that swapped it out), `Justified` and `Settled`.

Of `PtyRaw` it proves `TypeOK`, `NothingLost` and `NothingAfterExit`,
for any amount of output, any buffer, any number of resumes and any of the systems,
from `RawAssumption`. Its invariant is `Inv == TypeOK /\ Control /\ Held /\ Released /\ Flow
/\ AtTheEnd`:

* `Control` ties the pump's place to the child, the pseudo-terminal and the exit;
* `Held`: on macOS this process keeps a slave until the drain begins, and when it
  frees it with nobody else on the pty, no slave is left;
* `Released`: from the release on, a reader that waits has been woken;
* `Flow`: unless the drain was late, what the sink was handed, what the reader has and
  what is buffered, put together, are `1 .. wrote`;
* `AtTheEnd`: the reader ends only on an empty pty that nobody can write to, and the
  pump leaves the drain only for the reader's end or because it was late.

`NothingLost` follows from the last two. `Held` is what makes `AtTheEnd` inductive on
macOS, where a slave freed too early would discard what is still buffered.

`FrameProofs` proves `MirrorIsFaithful` and `FrozenViewIsStill` from
`FrameAssumption` (a screen of at least one cell), for any screen, history, margins and
counts, and any number of verbs between two frames. The invariant is `Good`: the frame
is `Full`, or the view is scrolled up, or `Faithful` holds: for each cell that is not
damaged there is a row of the mirror where the cell is now, and it is the row the one
scroll op will bring here (`From`). So damage, scroll op and contents are one
statement, and each verb must keep it: a second scroll of another region is only legal
because it damages what it moves, and an undamaged row outside the region because the
op does not reach it. `Follows(s, z)` says that `z` keeps `Good`, and the view, if `s`
had them. It is transitive, so a verb follows because the operators it is made of do:
`WriteGlyph` through `WrapLine`, `LinefeedInner`, `ShiftRegion` and `RecordScroll`.
`Steady` is the view's half, which `FrozenViewIsStill` needs: as many lines as the history
gains, the offset grows, unless the frame became `Full`. `cap_scroll` needs no case of its
own: a count beyond the region takes every row from outside, and all of them are damaged.
A shift by n lines repeats a shift by one.

Of `RenderSurface` it proves `LossesAreSurvived`, without an assumption: for any fonts and densities, any number
of terminals, losses and calls, and wherever a build fails. The invariant is `SurfaceInv`:

* `Tables` and `Booked`, always: configurations have ids and keys of their own, every grid has one of
  them, a configuration's references are the grids that hold it, and what a grid takes for uploaded
  is what its buffer holds. That must survive a selection that fails half-way in a restore;
* `Drawn`, while a frame could be drawn: pipeline, buffers and configurations are of this context, and the
  configuration is of the font the grid asks for. A font chosen while the context is gone breaks it,
  which is why a restore must reach `PlacedUpTo` for every grid before it counts as done (`SelectAllGives`);
* `Placed` and `Watched`, unless a build failed or the surface is disposed: each terminal stands on cells of its font
  at the renderer's density, and a watcher that has reported left the page's density everywhere;
* `Phases`: a loss whose event was handled lasts, and a restore that is due is one that failed or that
  nobody shows. Without it a density event could find a rebuild still due, and be forgotten;
* `Notices`: the deadlines told are of losses there were, and of this one only once it is overdue.

The restore is followed through its steps: `AfreshGives`, `RebakeGives`, a selection per grid (`PlacingStep`), the
uploads. `Carries(G, H)` says that a call of the host leaves what could be drawn drawn, and `Less` that an operation
only removes: `DisposeSurface` repeats a removal.

`AnchorsProofs` proves `KeepsTheFeed`, that `Anchors` implements `MarkerFeed`, from `AnchorConstants`,
for any limit, cap and tallest screen and any number of calls. The invariant is `Fed`: the
markers are `Registered` (ids are issued and no two markers of either screen share one, a list is
within the cap, every marker is on a line its buffer has, and the alternate list is empty while
the primary screen is shown) and the screen has the shape the verbs work on (`Screened`). That a
marker is on a line the buffer has is what is hard to keep: a rotate at the edge, a line that leaves a full
history, a clamp at a resize and the shift below a margin each put it at risk, and
a marker past the end is on a line that no index may name. The refinement is shown of parts of a call:
`Feeds(s, z)` says that from s to z some markers died, each was announced, and either the epoch
moved or the active index is the old one less the dead and less the lines evicted. It is
transitive, so each fixup, each turn of a scroll, each row blanked and each pane of a resize is
shown once, and a call is their composition (`Goes`). `FeedStep` maps a call to `Retire`,
`Disturb` or a stutter, and `BirthStep` one that pushes a marker to `Birth`. What the rows
carry, the points and the selection are shown to change nothing of it (`Quiet`).

Of `MarkerIndex` `WidgetProofs` proves `AnswersAreTrue`, of the cache and any engine that keeps the
promise of `MarkerFeed`, for any set of ids, lines, totals and epochs. The idea is a
marker's *place*: within an epoch, its line plus what was evicted before it is a constant.
`Truths` says that one table of places, by epoch and id, accounts for every line that is
anywhere: in the engine, in frames, births and answers in transit, queued behind a pull,
in the cache. What crosses what then does not matter. That a marker told dead has no
line needs more: `OwnPull` (of the pulls that are out only one is the cache's own),
`NewsInOrder` (a birth is delivered before its death, and no birth of a marker told
dead is in transit), and `Buried` (a death that a pull's answer does not know of is among the events
replayed onto it), which holds while no pull was refused: finding 5 is what happens after.

Of `SearchBox` it proves `BoxIsTheEngines`, from `BuffersAreOccurrences` (a buffer is a
sequence of naturals), for any buffers and any number of searches, steps and changes. A
search is two round trips and a show, and several are out at once. The invariant follows
the last request that replaces the engine's matches, which is in one of five places:
`Requested`, `Counted`, `Located`, `Placed`, `Installed`. `LastIn(queue, kind, good)` says
that the last element of a kind in a queue is a good one, and `NoneIn` that there is none: what
stands before it in the queue, however late or superseded, is answered earlier and overwritten.
`Left` is the same of a search that was ended or rejected, where the last thing asked is to
clear.

Of `LinkTracker` it proves `LinksAreCurrent`, from `RowsAssumption` (the viewport's height
is a natural), for any viewport and any number of writes and moves. What the tracker holds is
wrong for a while by design: a frame changes rows under the answers, and an answer comes for
rows that have changed. The invariant `LinkInv` says when it may be. `Held`: the answers are
about different rows, and those compared since the last frame (not `unchecked`) are good;
`Matches`: the controller's links are computed from the answers and the OSC 8 rows, unless
they are `stale`; `Pointing`: while the pointer is on the grid they are neither. So the
hover is right after every step, and a press or a release that finds them stale
looks again before it takes a link (`Found`). That a link whose answer is good is on the
mirror whole (`LineIsShown`) needs that the letters of its address are those of its rows
in order: a row is known by the number of the line's rows above it (`RowsAbove`).

Of `Pointer` it proves `PointerIsFollowed`, from `PointerAssumption` (a pane has a cell, the
viewport lies in the buffer), for any pane, any history, any sets of mouse events and any
number of steps. The invariant `PointerInv` has three parts. `Believed`: a drag is in a gesture of
the widget's own and has a selection, a speed is one of a drag, and the controller thinks that
something is selected just when the engine has a selection, or dropped it. `Announced`: the
anchor, where there is one, is where the engine's selection began, seen from the view, and
what was last reported is that anchor with the selection's end. It holds while the view has not
moved and the engine dropped nothing; it is why a report with an unchanged key may be
swallowed. And the speed, unless 0, is the one the pointer's row gives. A handler is a
function of the fields and the engine's selection, so each has a lemma (`Handles`): if what it found was
announced, what it leaves is, and a change of the selection is reported; a handler that
begins a selection or forgets the anchor, and reports, needs no such start. `Taken` makes steps of them.

Of `Composition` it proves `CommitsInOrder`, from `PrefillsAreTexts` (what stands in the textarea is
text), for any texts around the caret and any number of keystrokes. A commit is in one of four phases,
and each says what of the committed text is still to be sent: in `Plain` nothing, or what a waiting task
will find when it compares the textarea with what it was; in `Syllable`, with a composition open, nothing of what was
committed before it; in `Ended` the piece of the textarea from where the composition began to the caret; in `Following`,
where the next composition opened before the last one was read, the piece up to where the next one began, wherever
the caret is by now. `ImeQueue` says which tasks can wait: a plain edit's is first and alone of its kind,
an update's is run before the composition ends, a commit that is to be read has its task and no
edit waits then, and no task is left when a keystroke begins. The steps need what an edit does to pieces of a text
(`Spliced`, `WithoutStart`) and that clearing the textarea waits for all of them (`ClearRuns`).

`ModesProofs` proves `CursorIsSound` and the action property `AltIsTransparent`, from
`ModeAssumption` (screens have a cell, counts and coordinates are naturals, the tab
width and the keyboard stack's cap are not 0). `Sound` is the first, strengthened by
types; that a parked cursor is in the last column is what `RestoreCursor` and `Resized`
have to repair, and `Loose` is `Sound` without it, for the states in between. `Kept` is the
second: from `?1049h` to `?1049l` what was found is in the slot and the keyboard of the
screen that is not shown, and the caret aside; and as long as no resize came
between, that slot is one `RestoreCursor` takes back unchanged. `Leads(s, z)` (z is sound,
and has the same size and the same aside) is transitive and goes through the operators
of the control functions; only `?1049`, `?47`, the full reset and the resize touch what is
aside, and have steps of their own. n tab stops, or n steps back, repeat one.

`RowEditProofs` proves `PairsAreWhole` and `CellsAreTold`, from `RowAssumption` (at least one row,
two columns and one mark in a cluster's tail), for any screen and any number of verbs. The
invariant `RowInv` says that between two verbs the screen is `Whole` and nothing is damaged:

* `Local`: each row is `Fit`, and the consumer's view of a cell that is not damaged is what is
  `Painted` there. `Fit` is what lets entries lie stale in the row's maps: a bit of the cell says
  that the entry is the cell's own, and a cell without it has none;
* `Pairs`: each border of two columns is `Sound`. It is stated by borders and not by cells, because
  a verb repairs the two ends of what it touches, and a shift moves the borders with the cells;
* `Backed`: below a vacated column is the pair it was vacated for;
* `Parked`: a cursor parked at the end of a region has not vacated its own column. A wrap there
  scrolls the row away from the one below it, and without this the next glyph would leave an
  artefact without its pair. A cursor restored parked breaks it: finding 12.

In the middle of a verb none of them holds, so each has a hole: the cells not yet told, the borders
open, the row not backed. `FreeCell`, `Put`, `ShiftCells`, `VoidIf`, `ShiftRegion` and the rest have lemmas
that say which holes they open and close, and each verb closes its own. `Landed` and `VacateForWrap`
are the hard ones: between them a row claims a pair that is not there. `ClearRows` and
`ScrollRegionLines` repeat a step.

Of `PackedCell` it proves `AttributesAreIndependent`, from `PackedAssumption` (a colour is a mode and
a number, a flag set has fourteen bits), for any characters, colours and flags. `SoundWords` says that each of
the three words uses the bits that are its own and no other, and that the style read from
them is one of the six there are; without it an operation on one field could find bits of another
to move. The flags are scattered over the three words, the style is three bits of one of them that
are masked, shifted and put back: lemmas say where each bit goes (`FlagsAnswer`, `StyleItself`),
and each operation keeps the words sound and the nine other answers.

A step repeated n times is a function of n that refers to itself. The library's
induction theorems take an operator as a parameter, which the provers cannot
instantiate; `Iteration` goes by least counterexample instead (`WFMin` on the naturals): such a
function exists, and stays in a set that the step stays in. That is induction enough
for a loop's invariant. What such a function computes, beyond that, is not proved.

Only model-checked: liveness under fairness and `ENABLED`, which the prover does not
reach; modules with a RECURSIVE operator, where the SMT backend is lost, and what a
recursive definition computes for every input (the walks of `BufferText`, `Reflow`,
`Wire` and `BuiltinGlyphs`); `HoldersFollow`, of which `AnchorsProofs` has only the markers' lines within the buffer;
and the invariants of the modules without proofs in the table of section 2.

## 5. Findings

`PROJECT.json` quotes the lines. Only the third and the sixth have a run of their own; of
the others the model is there, and what shows the finding is said:

1. The doc comment of `Pty` says no frame follows `on_exit`; an edit of an ended session
   sends one. (`PtyLoop`, `MaxOut = 1`, `Queries = {}`, `PipeCap = 1`, `MaxWrites = 0`,
   `MaxEdits = 1`, `Decodes` and `ReadFails` FALSE, `PROPERTY NoFrameAfterExit`.)
2. Where closing the pseudo-terminal waits for its reader, as a ConPTY's does, a resize
   at the exit closes a cycle of three waits. (`PtyResize`, `Callers = {c1}`, `Sizes = {1, 2, 3}`,
   `MinSize = 2`, `MaxCalls = 1`, `Buffered = 1`, `CloseWaits = TRUE`, `PROPERTY PumpEnds`.)
3. `frame_stream_scrolled`: a view scrolled up by less than a screen still shows live
   rows, and their changes are not sent.
4. `add_marker` says a marker's disposal is announced when its line
   leaves the buffer; a resize that evicts the line keeps the marker, on line 0
   (docs/map/territory/reflow.md records the saturation). (As `Anchors.cfg`, `INVARIANT MarkersDieWithTheirLine`.)
5. The argument in `invalidate`'s comment that a queued birth
   cannot bring a dead marker back overlooks a birth delivered ahead of its frame. The
   pull it was queued for is refused, the death then comes with nothing in flight,
   and the next epoch's snapshot is the birth's own. The next frame's count repairs it. (As
   `MarkerIndex.cfg`, `INVARIANT DeadStayDead`.)
6. `search_stale`: two re-searches of one query share an epoch; the second finds nothing and
   settles at once, and the first, whose anchor is answered later, puts its count back.
7. A resize whose cursor comes out just past a full row, which is the last to go into the history, leaves
   the cursor a row low: `reflow_pane` clamps the row at 0 and then adds one. (`Reflow` with
   `Widths <- {2, 3}`, `Heights <- {2}`, `Redraws <- {"off"}`, `MaxActs <- 7`, `MaxResizes <- 1`,
   `PROPERTY CursorReadsTheNextRow`; the run's five steps do not reach it.)
8. `demote_cluster_to_narrow` destroys a wrapped pair and leaves the artefact of the row above,
   which `void_wrap_artefact_above` is said to drop. (`VacancyIsBacked` without `~t.cluster`.)
9. `apply_damage` replaces the retained grid before it judges a frame of another size, and
   keeps the blank one when it refuses the frame. (`FramesAreShown` without `whole =>`.)
10. The key `onSelectionChange` is de-duplicated by is in viewport rows: after the view
   scrolled, another selection can have the same key, and is not announced. (`StepIsFelt`
   without `~stale`.)

11. Comments of the decoration layer say that a reset issues marker ids anew, so that a stale one could
   name another marker; `full_reset` keeps the counter, and an id is never issued again
   (`MarkerFeed`'s `Birth`, `Anchors`).
12. `shift_region` leaves the wrap of a row that it scrolls for a wrap alone: "the exposed blank is the
   continuation the wrap is waiting for". A cursor saved parked (DECSC) and restored later wraps a row it
   did not fill: if a wide glyph vacated that row's last column meanwhile, and the row is by then the bottom of
   a region, the artefact goes up with the row and its pair stays below. (`VacancyIsBacked` without `~t.returned`.)
13. `void_wrap_artefact_above` says a pair that is destroyed voids the artefact it wrapped from. On a screen of two
   columns the pair before the cursor may be such a pair, and `vacate_for_wrap` frees its lead without
   that. (`VacancyIsBacked` without `Cols > 2`, `Cols = 2`.)
14. "Never signal a reaped child": a kill that finds the exit by its own polling reaps the child and leaves
   `exited` to the pump's next poll. A second terminate, or the `Drop` after a terminate, that comes before it sends
   a SIGHUP to a pid that may by then be another process's. (As `PtyLoop.cfg`, `PROPERTY NeverSignalReaped`:
   `ChildExit`, `Terminate`, `KillSeesExit`, `Terminate`.)
15. A keypad key has no kitty form and `keypad_key` takes no modifiers: whatever was negotiated, its
   modifiers, repeat and release are the bytes of its plain press (a release types it again), which in numeric
   mode are the character's or Enter's. The comments of `encode_key` and `kitty_encode` except neither.
   (`KeysAreTold` with the event itself for `Told`.)
16. `kitty_param` says all eight modifiers are expressible and adds 1 to them in a u8: it overflows, which panics
   in a checked build and sends the parameter 0 in another. (`KittyParam(EveryModifier) = 0` in `MCBuffers`.)

Smaller things met on the way, none of them contradicted by a comment or a test:
an X11 button of 12 or more does not fit the drag code of the default mouse encoding
(input.rs:940-943); under `modifyOtherKeys` Shift+Super+Space is sent without Shift; a mode setting of
more than `MAX_MODE_SETTING` bytes ahead of ConPTY's query is passed when it comes in one read, and ends the
watch when it is split; `ESC Y` followed by leaving VT52 leaves a coordinate pending; after a
local chord an application may be told of a left release it saw no press of; a local drag whose release is lost goes on
following a pointer with no button down; a Shift+click after the engine dropped the
selection extends nothing; the announcer can cut a surrogate pair in the suffix it compares, its joining newlines drain
the echo queue too, and the output of a Full frame is not announced; points in
trailing blank rows that reflow absorbs are clamped to the end of the text.

## 6. Not modelled

* `PtyLoop`: a spawn that fails, the `on_output` and `on_tick` hooks (they run
  under the session's mutex and change none of this state), a hook that panics, a signal that is refused.
  `PtyRaw` leaves the kill's steps to `PtyLoop`: there a terminate ends the child.
  `PtyRaw`: read errors. `PtyResize`: an `ioctl` that fails. `StartupQuery`: mode settings above the limit in one read (`ShortSettings`).
* `FrameStream`: wide glyphs (`RowEdit`), reflow (`Reflow`), origin, insert or newline
  mode (`Modes`), caret and overlay spans. `Anchors`: columns and sides, soft wraps and the column
  half of a resize, the saved cursor (`Reflow`), the change watches (`SettledLines`). `MarkerIndex`: frames without the
  optional header fields, non-finite arguments.
* `RowEdit`: REP, `clear()`, the alternate screen, background colour erase, newline mode. `Modes`: a
  resize puts the saved cursors in the first or the last cell only; pens, charsets and keyboard
  flags are numbers; the dispatch table and the wording of replies are left out.
* `Reflow`: the history is below its limit; no claim for points over an artefact or a blank, points in kept rows that are cut,
  points on blank rows below the text, and a saved cursor whose row goes into the history (it lands on row 0).
* `BufferText`: regular expressions and letter case. `SettledLines`: narrow characters, one rule that paints whole lines.
* `Wire`: which error a rejected buffer gives. `Input`: `encode_focus`, the win32 records, the derivation of the modified-keys mask.
* `GlyphAtlas`: the direct `apply_frame` path, the emoji flag, a wrap of the eviction counter. `RenderSurface`: density does not move
  back before its watcher reported it; widgets are attached and sized; a density handler is installed.
* `BuiltinGlyphs`: U+2571-2573 and U+1FB98-1FB99 (square roots). `FrameGrid`: colours, underline and flag columns and links go with the text.
  `Preedit`: one row, widths given.
* `Composition` assumes of the browser that its tasks run before the next keystroke, that a key's own edit comes with its keydown,
  and that a key during an open composition is the input method's or ends it. Outside of that the code is known to lose text: a letter and the
  start of a composition before its diff ran, and two deletions that coalesce.
* `Pointer`: reports of drags and hovers to the application, links, middle-click paste, primary selection, the speed of scrolling.
  `Announcer`: focus at a boundary, the tree's sizes, output that erases, the selection bridge, what scrolls past between two frames.
* `Layers`: minimum contrast, bold as bright, underline colours, the hovered link's underline.
* Not modelled at all: font metrics, the canvas rasteriser and shaders, the cursor's compositing,
  the scrollbar's thumb and its drag, wheel scrolling (floating point), clipboard, command navigation, `fit`, the frame loop, titles and
  clipboard payloads: each is a function of one input, I/O, or wiring without state of its own. The facade, fuzz targets, benches, docs and CI hold no program logic.
