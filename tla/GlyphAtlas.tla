----------------------------- MODULE GlyphAtlas -----------------------------
(***************************************************************************)
(* The glyph atlas of the renderer: one texture and one cache per font     *)
(* configuration, shared by the grids drawn in that font, each of which    *)
(* keeps the slot numbers it packed.  A full region gives a new glyph the  *)
(* slot of the least recently used one, which another grid's instances may *)
(* still name; the pins of a frame and the eviction stamps are what keeps  *)
(* the grids right.                                                        *)
(***************************************************************************)
EXTENDS Integers, Sequences, FiniteSets, TLC

CONSTANTS Configs,    \* font configurations
          Frames,     \* contents a grid may be given: sequences of cells, row by row
          Columns,    \* cells to a row
          Space,      \* the glyph of slot 0, baked in advance
          Capacity,   \* glyphs a region holds: [normal |-> _, wide |-> _]
          MaxGrids,   \* grids, in the order of their registration
          MaxChanges  \* bound: calls of the host

VARIABLES caches,   \* [Configs -> cache with its atlas]
          tiers,    \* the grids
          quiet,    \* renders since the last change of the host, up to 2
          packed,   \* grids the last render packed
          refused,  \* grids the last render could not pack for want of slots
          changes

atlasVars == <<caches, tiers, quiet, packed, refused, changes>>

\* A cell: a narrow glyph, the lead of a wide one, or its spacer.
Region(cell) == IF cell.kind = "lead" THEN "wide" ELSE "normal"
StartsRow(k) == (k - 1) % Columns = 0
Base(region) == IF region = "normal" THEN 1 ELSE 1 + Capacity.normal
Step(region) == IF region = "normal" THEN 1 ELSE 2     \* a wide glyph spans two slots
Slots == 0..(Capacity.normal + 2 * Capacity.wide)

Fresh == [normal |-> <<>>, wide |-> <<>>, evictions |-> 0,
          atlas |-> [s \in Slots |-> <<Space, "narrow">>]]

\* Entries of a region, least recently used first.
Entry(c, r, text) == SelectSeq(c[r], LAMBDA e : e.text = text)
Others(c, r, text) == SelectSeq(c[r], LAMBDA e : e.text # text)
Touch(c, r, text) == [c EXCEPT ![r] = Others(c, r, text) \o Entry(c, r, text)]
Full(c, r) == Len(c[r]) = Capacity[r]
NextEviction(c, r) == IF Full(c, r) THEN {Head(c[r]).text} ELSE {}

\* A new glyph: the next free slot, or the slot of the glyph it displaces.
Insert(c, r, text) ==
    LET slot == IF Full(c, r) THEN Head(c[r]).slot ELSE Base(r) + Step(r) * Len(c[r])
        rest == IF Full(c, r) THEN Tail(c[r]) ELSE c[r]
        image == IF r = "normal" THEN slot :> <<text, "narrow">>
                 ELSE slot :> <<text, "lead">> @@ (slot + 1) :> <<text, "spacer">>
    IN [c EXCEPT ![r] = Append(rest, [text |-> text, slot |-> slot]),
                 !.evictions = IF Full(c, r) THEN @ + 1 ELSE @,
                 !.atlas = image @@ @]

\* One cell of resolve_frame.  w: the cache, the pins, the slots so far, the right
\* half the next spacer of the row takes, and why the frame was refused.
Pinned(w, r, text) == [w EXCEPT !.pins[r] = @ \cup {text}]
TakeSlot(w, r, slot) == [w EXCEPT !.slots = Append(@, slot), !.right = IF r = "wide" THEN slot + 1 ELSE 0]
TakeFrom(cache, w, r, text) == TakeSlot([w EXCEPT !.cache = cache], r, Entry(cache, r, text)[1].slot)
ResolveText(w, r, text, broken) ==
    IF Entry(w.cache, r, text) # <<>> THEN TakeFrom(Touch(w.cache, r, text), Pinned(w, r, text), r, text)
    ELSE IF NextEviction(w.cache, r) \cap w.pins[r] # {} THEN [w EXCEPT !.err = "capacity"]
    ELSE IF text = broken THEN [w EXCEPT !.err = "rasterize"]
    ELSE TakeFrom(Insert(w.cache, r, text), Pinned(w, r, text), r, text)
NewRow(w, k) == IF StartsRow(k) THEN [w EXCEPT !.right = 0] ELSE w
Resolve(w, cell, broken) ==
    IF w.err # "" THEN w
    ELSE IF cell.kind = "spacer" THEN [w EXCEPT !.slots = Append(@, w.right), !.right = 0]
    ELSE IF cell.text = Space THEN TakeSlot(Pinned(w, Region(cell), Space), "normal", 0)
    ELSE ResolveText(w, Region(cell), cell.text, broken)

ResolveFrame(cache, pins, frame, broken) ==
    LET f[i \in 0..Len(frame)] ==
          IF i = 0 THEN [cache |-> cache, pins |-> pins, slots |-> <<>>, right |-> 0, err |-> ""]
          ELSE Resolve(NewRow(f[i - 1], i), frame[i], broken)
    IN f[Len(frame)]

NoPins == [c \in Configs |-> [normal |-> {}, wide |-> {}]]

\* Mutant of Siblings: the refused grid alone is packed again.
OnlyItself(w, i) == {i}
\* The drawn grids that share the configuration of i.
Siblings(w, i) == {j \in DOMAIN w.tiers : w.tiers[j].view /\ w.tiers[j].config = w.tiers[i].config}

\* render()'s pass over one grid.  A refusal dirties every drawn grid that
\* shares the configuration, so that the next frame packs them in order again.
Resolved(w, i, r) ==
    [w EXCEPT !.caches[w.tiers[i].config] = r.cache, !.pins[w.tiers[i].config] = r.pins,
              !.tiers = IF r.err = ""
                        THEN [@ EXCEPT ![i] = [@ EXCEPT !.dirty = FALSE, !.slots = r.slots, !.of = w.tiers[i].frame,
                                                        !.stamp = r.cache.evictions, !.shown = TRUE]]
                        ELSE [j \in DOMAIN @ |-> IF j \in Siblings(w, i) THEN [@[j] EXCEPT !.dirty = TRUE] ELSE @[j]],
              !.packed = IF r.err = "" THEN @ \cup {i} ELSE @,
              !.refused = IF r.err = "capacity" THEN @ \cup {i} ELSE @]
PackGrid(w, i, broken) ==
    LET g == w.tiers[i]
    IN IF ~g.view \/ (~g.dirty /\ g.stamp = w.caches[g.config].evictions) THEN w
       ELSE IF g.frame = <<>> THEN [w EXCEPT !.tiers[i].dirty = FALSE]
       ELSE Resolved(w, i, ResolveFrame(w.caches[g.config], w.pins[g.config], g.frame, broken))

PackAll(broken) ==
    LET f[i \in 0..Len(tiers)] ==
          IF i = 0 THEN [caches |-> caches, tiers |-> tiers, pins |-> NoPins, packed |-> {}, refused |-> {}]
          ELSE PackGrid(f[i - 1], i, broken)
    IN f[Len(tiers)]

-----------------------------------------------------------------------------
Holders(c, ts) == {i \in DOMAIN ts : ts[i].config = c}

AtlasInit ==
    /\ caches = [c \in Configs |-> Fresh]
    /\ tiers = <<>> /\ quiet = 0 /\ packed = {} /\ refused = {} /\ changes = 0

Change == /\ changes < MaxChanges /\ changes' = changes + 1
          /\ quiet' = 0 /\ packed' = {} /\ refused' = {}

\* A configuration nobody holds is baked afresh.
Baked(c) == IF Holders(c, tiers) = {} THEN [caches EXCEPT ![c] = Fresh] ELSE caches

AddTier(c) ==
    /\ Change /\ Len(tiers) < MaxGrids
    /\ caches' = Baked(c)
    /\ tiers' = Append(tiers, [config |-> c, view |-> TRUE, frame |-> <<>>, of |-> <<>>, slots |-> <<>>,
                               dirty |-> FALSE, stamp |-> 0, shown |-> FALSE])

SelectConfig(i, c) ==
    /\ Change /\ c # tiers[i].config
    /\ caches' = Baked(c)
    /\ tiers' = [tiers EXCEPT ![i].config = c, ![i].dirty = TRUE, ![i].shown = FALSE]

ApplyDamage(i, f) ==
    /\ Change
    /\ tiers' = [tiers EXCEPT ![i].frame = f, ![i].dirty = TRUE]
    /\ UNCHANGED caches

\* An overlay, a palette, a decoration: the grid is to be packed again.
Setter(i) == Change /\ ~tiers[i].dirty /\ tiers' = [tiers EXCEPT ![i].dirty = TRUE] /\ UNCHANGED caches
SetView(i) == Change /\ tiers' = [tiers EXCEPT ![i].view = ~@] /\ UNCHANGED caches

\* A frame, in which the rasteriser may fail on one glyph.
Commit(w) == /\ caches' = w.caches /\ tiers' = w.tiers
             /\ packed' = w.packed /\ refused' = w.refused
RenderGrids(broken) ==
    /\ Commit(PackAll(broken))
    /\ quiet' = IF broken # Space THEN 0 ELSE IF quiet < 2 THEN quiet + 1 ELSE 2
    /\ changes' = IF broken # Space THEN changes + 1 ELSE changes

Texts == UNION {{f[i].text : i \in DOMAIN f} : f \in Frames}
AtlasNext ==
    \/ RenderGrids(Space)
    \/ \E t \in Texts \ {Space} : changes < MaxChanges /\ RenderGrids(t)
    \/ \E c \in Configs : AddTier(c)
    \/ \E i \in DOMAIN tiers :
         \/ Setter(i) \/ SetView(i)
         \/ \E c \in Configs : SelectConfig(i, c)
         \/ \E f \in Frames : ApplyDamage(i, f)

-----------------------------------------------------------------------------
(* Properties.                                                             *)

\* The atlas holds, at every slot the grid's instances name, the glyph (and
\* the half of it) of the cell it stands for.
DrawsItsGlyphs(i) ==
    LET g == tiers[i]
    IN /\ g.shown /\ g.of = g.frame
       /\ \A k \in DOMAIN g.frame :
            LET cell == g.frame[k]
                lead == ~StartsRow(k) /\ cell.kind = "spacer" /\ g.frame[k - 1].kind = "lead"
                wanted == IF lead THEN <<g.frame[k - 1].text, "spacer">>
                          ELSE IF cell.kind = "spacer" THEN <<Space, "narrow">>
                          ELSE <<cell.text, cell.kind>>
            IN caches[g.config].atlas[g.slots[k]] = wanted

\* The distinct glyphs of the drawn grids of i's configuration, up to i.
Needed(i, r) ==
    UNION {{tiers[j].frame[k].text : k \in {k \in DOMAIN tiers[j].frame :
                /\ tiers[j].frame[k].kind # "spacer" /\ tiers[j].frame[k].text # Space
                /\ Region(tiers[j].frame[k]) = r}}
           : j \in {j \in 1..i : tiers[j].view /\ tiers[j].config = tiers[i].config}}
Fits(i) == \A r \in {"normal", "wide"} : Cardinality(Needed(i, r)) <= Capacity[r]

\* A grid packed in a frame keeps its glyphs through that frame, whatever the
\* grids after it pack.
PackedIsPinned == \A i \in packed : DrawsItsGlyphs(i)

\* One frame after the last change every drawn grid is right whose glyphs fit
\* the atlas together with those of the grids registered before it: what one
\* grid displaced another has packed again, and a grid that is refused for want
\* of slots costs the grids before it nothing.
SettledIsRight ==
    quiet = 2 => \A i \in DOMAIN tiers : tiers[i].view /\ tiers[i].frame # <<>> /\ Fits(i) => DrawsItsGlyphs(i)

\* A frame is refused only when the atlas really is too small for it.
RefusedForWantOfSlots == \A i \in refused : ~Fits(i)

\* All three.
GridsAreRight == PackedIsPinned /\ SettledIsRight /\ RefusedForWantOfSlots
=============================================================================
