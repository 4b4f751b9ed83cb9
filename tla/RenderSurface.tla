---------------------------- MODULE RenderSurface ----------------------------
(***************************************************************************)
(* One canvas shared by several terminals: the browser's WebGL context     *)
(* with its loss and restore events, the renderer's loss state machine,    *)
(* its grids and font configurations with the GPU objects they own, and    *)
(* the TerminalSurface above it (leases, presentation, density watcher,    *)
(* loss relay, disposal).  A GPU object is known by the generation of the  *)
(* context it was created on; an object made on a dead context is made     *)
(* without an error and belongs to no generation.                          *)
(***************************************************************************)
EXTENDS Integers, Sequences, FiniteSets

CONSTANTS Keys,       \* font selections a grid may ask for
          Densities,  \* device pixel ratios of the page
          MaxGrids,   \* bound: grids ever registered
          MaxLosses,  \* bound: times the context is lost
          MaxActs     \* bound: calls of the host, changes of density and losses

VARIABLES ctx,     \* the browser's context
          st,      \* ContextState of the renderer
          timers,  \* epochs of the restore deadlines still armed
          told,    \* epochs of the deadlines the consumer was told of
          gl,      \* the renderer: pipeline, density, grids, configurations
          surf,    \* the TerminalSurface and its density watcher
          live,    \* the page's device pixel ratio
          surfaceActs  \* of those, so far

surfaceVars == <<ctx, st, timers, told, gl, surf, live, surfaceActs>>

NoView == <<>>                 \* no viewport: nothing is drawn
Dead == 0                      \* the generation of an object nobody can use
Here(c) == IF c.alive THEN c.gen ELSE Dead

-----------------------------------------------------------------------------
(* The renderer's tables.  An operation that can fail gives its result     *)
(* and whether it succeeded.                                               *)

Config(G, id) == CHOOSE c \in G.configs : c.id = id
Sharing(G, key) == {c \in G.configs : c.key = key}
Fine(G) == [gl |-> G, ok |-> TRUE]
Refused(G) == [gl |-> G, ok |-> FALSE]

Retain(G, c) == [G EXCEPT !.configs = (@ \ {c}) \cup {[c EXCEPT !.refs = @ + 1]}]
ReleaseConfig(G, id) ==
    LET c == Config(G, id)
    IN [G EXCEPT !.configs = (@ \ {c}) \cup
            (IF c.refs > 1 THEN {[c EXCEPT !.refs = @ - 1]} ELSE {})]

\* The entry for a key: a sibling's, or a new one baked now.  A bake can fail.
Acquire(G, key, here, fails) ==
    IF Sharing(G, key) # {} THEN Fine(Retain(G, CHOOSE c \in Sharing(G, key) : TRUE))
    ELSE IF fails THEN Refused(G)
    ELSE Fine([G EXCEPT !.next = @ + 1, !.configs = @ \cup
                 {[id |-> G.next, key |-> key, refs |-> 1, gen |-> here, dpr |-> G.dpr]}])

\* Acquire before release; what the grid had packed is of the old atlas.
Select(G, i, key, here, fails) ==
    LET old == G.grids[i].config
        got == Acquire(G, key, here, fails)
        new == CHOOSE c \in got.gl.configs : c.key = key
        moved == [G.grids[i] EXCEPT !.config = new.id, !.dirty = TRUE, !.shown = FALSE]
    IN IF Config(G, old).key = key THEN Fine(G)
       ELSE IF ~got.ok THEN got
       ELSE Fine(ReleaseConfig([got.gl EXCEPT !.grids[i] = moved], old))

SelectAll(G, here, fails) ==
    LET f[i \in 0..Len(G.grids)] ==
          IF i = 0 THEN Fine(G)
          ELSE IF ~f[i - 1].ok THEN f[i - 1]
          ELSE Select(f[i - 1].gl, i, G.grids[i].key, here, fails)
    IN f[Len(G.grids)]

\* Only what differs from the last upload is written to the buffer.
Upload(g) == IF g.uploaded = g.inst THEN g
             ELSE [g EXCEPT !.data = g.inst, !.uploaded = g.inst]
Repack(g) == IF g.want = 0 THEN [g EXCEPT !.dirty = FALSE]
             ELSE Upload([g EXCEPT !.inst = g.want, !.shown = TRUE, !.dirty = FALSE])
NewBuffers(g, here) == [g EXCEPT !.gen = here, !.data = 0, !.uploaded = 0]
UploadAll(G) == [G EXCEPT !.grids = [i \in DOMAIN G.grids |-> Upload(G.grids[i])]]
\* The pipeline, the buffers and the density of a new context.
Afresh(G, here) == [G EXCEPT !.pipe = here, !.dpr = live, !.grids = [i \in DOMAIN G.grids |-> NewBuffers(G.grids[i], here)]]
Rebake(G, ids, here, dpr) ==
    [G EXCEPT !.configs = {IF c.id \in ids THEN [c EXCEPT !.gen = here, !.dpr = dpr] ELSE c : c \in @}]
Wanted(G) == {c.id : c \in {c \in G.configs : \E i \in DOMAIN G.grids : G.grids[i].key = c.key}}

\* Mutant of Restore: a grid whose selectors moved while the context was gone is not placed.
RestoreInPlace(G, here, fails) ==
    IF fails = "build" THEN Refused(G)
    ELSE Fine(UploadAll(Rebake(Afresh(G, here), {c.id : c \in G.configs}, here, live)))

Uploaded(r) == IF r.ok THEN Fine(UploadAll(r.gl)) ELSE r
\* restore(): everything is built before anything is replaced; the grids whose
\* selectors moved while the context was gone are placed afterwards.
Restore(G, here, fails) ==
    IF fails = "build" THEN Refused(G)
    ELSE Uploaded(SelectAll(Rebake(Afresh(G, here), Wanted(G), here, live), here, fails = "select"))

MustDefer(c, s) == ~c.alive \/ s.lost \/ s.pending
Action(c, s) == IF ~c.alive \/ s.lost THEN "Skip" ELSE IF s.pending THEN "Rebuild" ELSE "Draw"

\* render(): the renderer and the flags it leaves, and whether it threw.
Pack(g) == IF g.view # NoView /\ g.dirty THEN Repack(g) ELSE g
Packed(G) == [G EXCEPT !.grids = [i \in DOMAIN G.grids |-> Pack(G.grids[i])]]
Rebuilt(r, s) == [gl |-> IF r.ok THEN Packed(r.gl) ELSE r.gl, st |-> [s EXCEPT !.pending = ~r.ok], ok |-> r.ok]
Render(c, s, G, fails) ==
    CASE Action(c, s) = "Skip" -> [gl |-> G, st |-> s, ok |-> TRUE]
      [] Action(c, s) = "Draw" -> [gl |-> Packed(G), st |-> s, ok |-> TRUE]
      [] OTHER -> Rebuilt(Restore(G, Here(c), fails), s)

\* The widget places a grid on a rectangle that is a multiple of its cell.
Place(G, g) == IF ~g.sized THEN g
               ELSE [g EXCEPT !.view = IF g.hidden THEN NoView
                         ELSE <<Config(G, g.config).key, Config(G, g.config).dpr>>]
ReapplyAll(G) == [G EXCEPT !.grids = [i \in DOMAIN G.grids |-> Place(G, G.grids[i])]]

\* A density the host was not told of: told, and a frame asked for.
Announce(u) == [u EXCEPT !.announced = live, !.frame = TRUE]

-----------------------------------------------------------------------------
SurfaceInit ==
    /\ ctx = [alive |-> TRUE, gen |-> 1, event |-> FALSE, losses |-> 0]
    /\ st = [lost |-> FALSE, pending |-> FALSE, overdue |-> FALSE, epoch |-> 0]
    /\ timers = {} /\ told = <<>> /\ surfaceActs = 0
    /\ live \in Densities
    /\ gl = [pipe |-> 1, dpr |-> live, grids |-> <<>>, configs |-> {}, next |-> 1, added |-> 0]
    /\ surf = [watched |-> live, announced |-> live, frame |-> FALSE, disposed |-> FALSE, failed |-> FALSE]

\* The browser.  The context is dead before its event is dispatched.
Lose == /\ ctx.alive /\ ctx.losses < MaxLosses /\ surfaceActs < MaxActs
        /\ ctx' = [ctx EXCEPT !.alive = FALSE, !.event = TRUE, !.losses = @ + 1]
        /\ surfaceActs' = surfaceActs + 1
        /\ UNCHANGED <<st, timers, told, gl, surf, live>>

DispatchLost ==
    /\ ctx.event
    /\ ctx' = [ctx EXCEPT !.event = FALSE]
    /\ st' = [st EXCEPT !.lost = TRUE, !.overdue = FALSE, !.epoch = @ + 1]
    /\ timers' = timers \cup {st.epoch + 1}
    /\ UNCHANGED <<told, gl, surf, live, surfaceActs>>

\* The renderer's listener runs first, then the surface's: present, re-place
\* every lease, present, and announce a density nobody announced.
OnRestored(s) == [s EXCEPT !.lost = FALSE, !.pending = TRUE, !.overdue = FALSE]
Present(r, s) == gl' = r.gl /\ st' = r.st /\ surf' = s
PresentAgain(back, first) ==
    IF first.ok
    THEN Present(Render(back, first.st, ReapplyAll(first.gl), "no"),
                 IF live # surf.announced THEN Announce(surf) ELSE surf)
    ELSE Present(first, [surf EXCEPT !.failed = TRUE])
Restored(fails) ==
    /\ ~ctx.alive /\ ~ctx.event
    /\ ctx' = [ctx EXCEPT !.alive = TRUE, !.gen = @ + 1]
    /\ IF surf.disposed THEN st' = OnRestored(st) /\ UNCHANGED <<gl, surf>>
       ELSE PresentAgain(ctx', Render(ctx', OnRestored(st), gl, fails))
    /\ UNCHANGED <<timers, told, live, surfaceActs>>

\* A restore deadline: never cancelled, so it may be of any earlier loss.
OnRestoreDeadline(e) == e = st.epoch /\ st.lost /\ ~st.overdue
Deadline(e) ==
    /\ e \in timers
    /\ timers' = timers \ {e}
    /\ IF OnRestoreDeadline(e)
       THEN /\ st' = [st EXCEPT !.overdue = TRUE]
            /\ told' = IF surf.disposed THEN told ELSE Append(told, e)
       ELSE UNCHANGED <<st, told>>
    /\ UNCHANGED <<ctx, gl, surf, live, surfaceActs>>

\* The page moves to another density; the watcher's event follows later.
DensityMoves(d) ==
    /\ surfaceActs < MaxActs /\ surf.watched = live /\ d # live
    /\ live' = d /\ surfaceActs' = surfaceActs + 1
    /\ UNCHANGED <<ctx, st, timers, told, gl, surf>>

SetDevicePixelRatio(c, s, G, fails) ==
    IF G.dpr = live \/ MustDefer(c, s) THEN Fine(G)
    ELSE IF fails THEN Refused(G)
    ELSE Fine([Rebake(G, {x.id : x \in G.configs}, Here(c), live) EXCEPT !.dpr = live])
PresentAnew(drawn, seen) == Present(drawn, IF drawn.ok THEN Announce(seen) ELSE [seen EXCEPT !.failed = TRUE])
AfterBake(set, seen, fails) ==
    IF set.ok THEN PresentAnew(Render(ctx, st, ReapplyAll(set.gl), fails), seen)
    ELSE gl' = set.gl /\ st' = st /\ surf' = [seen EXCEPT !.failed = TRUE]
DensityEvent(fails) ==
    /\ ~surf.disposed /\ surf.watched # live
    /\ AfterBake(SetDevicePixelRatio(ctx, st, gl, fails # "no"), [surf EXCEPT !.watched = live], fails)
    /\ UNCHANGED <<ctx, timers, told, live, surfaceActs>>

PresentLast(r) == Present(r, [surf EXCEPT !.frame = FALSE, !.failed = @ \/ ~r.ok])
\* The one presenting frame; the request is forgotten before it renders.
Frame(fails) ==
    /\ surf.frame
    /\ PresentLast(Render(ctx, st, gl, fails))
    /\ UNCHANGED <<ctx, timers, told, live, surfaceActs>>

\* A call of the host on the surface or on one terminal's widget.
Call == /\ surfaceActs < MaxActs /\ ~surf.disposed
        /\ surfaceActs' = surfaceActs + 1
        /\ UNCHANGED <<ctx, st, timers, told, live>>
Request == surf' = [surf EXCEPT !.frame = TRUE]

AddGrid(key, fails) ==
    LET got == Acquire(gl, key, Here(ctx), fails)
        c == CHOOSE c \in got.gl.configs : c.key = key
        grid == [key |-> key, config |-> c.id, gen |-> Here(ctx), view |-> NoView,
                 sized |-> FALSE, hidden |-> FALSE, dirty |-> FALSE, shown |-> FALSE,
                 want |-> 0, inst |-> 0, uploaded |-> 0, data |-> 0]
    IN /\ Call /\ gl.added < MaxGrids /\ UNCHANGED surf
       /\ gl' = IF ~got.ok THEN gl
                ELSE [got.gl EXCEPT !.grids = Append(@, grid), !.added = @ + 1]

Without(s, i) == [j \in 1..(Len(s) - 1) |-> IF j < i THEN s[j] ELSE s[j + 1]]
Removed(G, i) == ReleaseConfig([G EXCEPT !.grids = Without(@, i)], G.grids[i].config)
ReleaseLease(i) == Call /\ gl' = Removed(gl, i) /\ Request

\* Fitting, hiding and showing a terminal re-place it and ask for a frame.
Resize(i) == /\ Call /\ Request
             /\ gl' = [gl EXCEPT !.grids[i] = Place(gl, [@ EXCEPT !.sized = TRUE])]
Toggled(g) == [g EXCEPT !.hidden = ~@]
SetHidden(i) == /\ Call /\ Request
                /\ gl' = [gl EXCEPT !.grids[i] = Place(gl, Toggled(@))]

\* apply_damage: the pack waits for the next frame.
ApplyDamage(i) == /\ Call /\ Request
                 /\ gl' = [gl EXCEPT !.grids[i].want = 1 + (@ % 2), !.grids[i].dirty = TRUE]

\* A font setter: the selectors are edited at once and the configuration only
\* when the context can carry the bake; a failed bake puts the selectors back.
AdoptSelectors(i, key, fails) ==
    LET edited == [gl EXCEPT !.grids[i].key = key]
        got == Select(edited, i, key, Here(ctx), fails)
        adopted == IF MustDefer(ctx, st) THEN Fine(edited) ELSE got
    IN /\ Call /\ key # gl.grids[i].key
       /\ IF ~adopted.ok THEN UNCHANGED <<gl, surf>>
          ELSE /\ gl' = [adopted.gl EXCEPT !.grids[i] = Place(adopted.gl, @)]
               /\ Request

\* Every lease ends, the pending frame is cancelled, the listeners leave.
DisposeSurface ==
    LET f[i \in 0..Len(gl.grids)] == IF i = 0 THEN gl ELSE Removed(f[i - 1], 1)
    IN /\ Call
       /\ gl' = f[Len(gl.grids)]
       /\ surf' = [surf EXCEPT !.disposed = TRUE, !.frame = FALSE]

Failures == {"no", "build", "select"}
SurfaceNext ==
    \/ Lose \/ DispatchLost \/ DisposeSurface
    \/ \E e \in timers : Deadline(e)
    \/ \E d \in Densities : DensityMoves(d)
    \/ \E fails \in Failures : Restored(fails) \/ DensityEvent(fails) \/ Frame(fails)
    \/ \E key \in Keys, fails \in BOOLEAN : AddGrid(key, fails)
    \/ \E i \in DOMAIN gl.grids : \/ ReleaseLease(i) \/ Resize(i) \/ SetHidden(i) \/ ApplyDamage(i)
                                 \/ \E key \in Keys, fails \in BOOLEAN : AdoptSelectors(i, key, fails)
SurfaceSpec == SurfaceInit /\ [][SurfaceNext]_surfaceVars

-----------------------------------------------------------------------------
(* Properties.                                                             *)

Ready == ctx.alive /\ ~st.lost /\ ~st.pending

\* Whenever a frame would be drawn, everything it would draw with was made on
\* the context that is there now: the pipeline, each terminal's buffers with
\* the instances it packed, and its configuration, which is the one its font
\* selection asks for, at the renderer's density, held once per terminal.
FrameIsOfThisContext ==
    Ready =>
      /\ gl.pipe = ctx.gen
      /\ \A i \in DOMAIN gl.grids :
           LET g == gl.grids[i]  c == Config(gl, g.config)
           IN /\ g.gen = ctx.gen /\ (g.shown => g.data = g.inst)
              /\ c.gen = ctx.gen /\ c.key = g.key /\ c.dpr = gl.dpr
      /\ \A c \in gl.configs :
           c.refs = Cardinality({i \in DOMAIN gl.grids : gl.grids[i].config = c.id})

\* Unless a build failed, a terminal that is shown stands on a rectangle of the
\* cells it is drawn with, and once the watcher has reported, the renderer and
\* the host have the page's density: also when it moved while the context was
\* gone, when nothing could be rebuilt.
SurfaceIsCurrent ==
    Ready /\ ~surf.failed /\ ~surf.disposed =>
      /\ \A i \in DOMAIN gl.grids :
           LET g == gl.grids[i]
           IN g.sized => g.view = IF g.hidden THEN NoView ELSE <<g.key, gl.dpr>>
      /\ surf.watched = live => gl.dpr = live /\ surf.announced = live

\* The consumer hears of an overdue restore once per loss, from that loss's own
\* deadline, while the context is still gone, and never after disposal.
NotifiedOncePerLoss ==
    [][told' # told => /\ ~ctx.alive /\ ~surf.disposed
                       /\ told' = Append(told, st.epoch)
                       /\ \A i \in DOMAIN told : told[i] # st.epoch]_surfaceVars

\* The shared canvas and TerminalSurface: a frame draws with objects of the context that is
\* there, at the page's density, and a loss that lasts is told once, by its own deadline.
LossesAreSurvived == [](FrameIsOfThisContext /\ SurfaceIsCurrent) /\ NotifiedOncePerLoss
=============================================================================
