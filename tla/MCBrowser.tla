------------------------------ MODULE MCBrowser ------------------------------
(***************************************************************************)
(* What runs in the browser, for TLC: a behaviour is one of Composition,    *)
(* SearchBox, LinkTracker, RenderSurface, GlyphAtlas, BuiltinGlyphs,        *)
(* FrameGrid, Layers and Preedit.  They share no state: the others rest.    *)
(***************************************************************************)
EXTENDS SearchBox, LinkTracker, RenderSurface, Composition

VARIABLES part,
          caches, tiers, quiet, packed, refused, atlasChanges,
          glyph,
          engine, grid, copy, phase, view, outcome, whole,
          line, run, anchor, hint, spot, covered,
          markers, buffer, known, page, over, bar, log, closed, spent
atlas == <<caches, tiers, quiet, packed, refused, atlasChanges>>
consumers == <<engine, grid, copy, phase, view, outcome, whole>>
runs == <<line, run, anchor, hint, spot, covered>>
layers == <<markers, buffer, known, page, over, bar, log, closed, spent>>
vars == <<part, imeVars, searchVars, linkVars, surfaceVars, atlas, glyph, consumers, runs, layers>>

\* An empty textarea, and one with text on either side of the caret.
ImePrefills == {<< <<>>, <<>> >>, << <<91>>, <<92>> >>}
\* The search box's buffers gain, lose and keep occurrences, down to none.
SearchBuffers == {<<>>, <<1, 2, 3>>, <<2, 3>>, <<1, 3>>}
\* Four frames of a row of two cells, and one of two rows, a lead cut off at the end of the
\* first and a spacer at the start of the second; three narrow glyphs fit, and one wide one.
Narrow(text) == [text |-> text, kind |-> "narrow"]
Pair(text) == <<[text |-> text, kind |-> "lead"], [text |-> 0, kind |-> "spacer"]>>
A == INSTANCE GlyphAtlas WITH Configs <- {"c1", "c2"}, Space <- 0, Capacity <- [normal |-> 3, wide |-> 1],
                              Frames <- {<<Narrow(1), Narrow(2)>>, <<Narrow(3), Narrow(1)>>,
                                         <<Narrow(4), Pair(5)[1], Pair(5)[2], Narrow(0)>>, Pair(5), Pair(6)},
                              Columns <- 2,
                              MaxGrids <- 2, MaxChanges <- 6, changes <- atlasChanges
\* Every parity of width and height, and cells that are higher than wide and wider than high.
G == INSTANCE BuiltinGlyphs WITH Sizes <- {<<7, 8>>, <<8, 17>>, <<9, 16>>, <<16, 9>>}
\* A screen of two rows, and one of three for the scrolls; two clusters with marks of their own.
F == INSTANCE FrameGrid WITH Sizes <- {<<2, 2>>, <<1, 3>>}, Word <- 16,
                             Runs <- {<< <<32>> >>, << <<101, 1>> >>, << <<97, 2>>, <<101, 1>> >>},
                             Scrolls <- {<<0, 1, -1>>, <<0, 2, -1>>, <<1, 2, 1>>, <<0, 1, 2>>, <<1, 0, 1>>},
                             screen <- engine, mirror <- copy
\* Rows of four columns, tiled by blanks, letters, pairs and a lead at the edge, and a row of one.
CellOf(cp, flags, cluster) == [cp |-> cp, flags |-> flags, cluster |-> cluster, fg |-> 1, bg |-> 2]
Blank == CellOf(32, {}, FALSE)
Singles == {<<Blank>>, <<CellOf(97, {}, TRUE)>>}
Doubles == {<<CellOf(119, {"wide", "inverse"}, FALSE), CellOf(0, {"spacer", "inverse"}, FALSE)>>}
Tiled[n \in 0..4] ==
  IF n = 0 THEN {<<>>}
  ELSE {r \o s : r \in Tiled[n - 1], s \in Singles} \cup (IF n = 1 THEN {} ELSE {r \o s : r \in Tiled[n - 2], s \in Doubles})
Stranded(n) == {r \o <<CellOf(119, {"wide"}, FALSE)>> : r \in Tiled[n - 1]}
Thin == [cp |-> 110, wide |-> FALSE]
Wide == [cp |-> 118, wide |-> TRUE]
P == INSTANCE Preedit WITH
  Lines <- Stranded(1) \cup Tiled[4] \cup Stranded(4) \cup {<<Blank, CellOf(32, {"inverse"}, FALSE), Blank, Blank>>},
  Composed <- {<<r, <<c, 0>> >> : c \in 0..4, r \in {<<Thin>>, <<Wide>>, <<Thin, Wide>>, <<Wide, Wide>>, <<Wide, Wide, Thin>>}}
                \cup {<< <<>>, <<0, 0>> >>, << <<Thin>>, <<0, 1>> >>},
  Suggested <- {<< <<>>, <<0, 0>> >>, << <<Thin, Wide, Thin>>, <<0, 0>> >>, << <<Wide, Thin>>, <<1, 0>> >>,
                << <<Thin, Wide>>, <<2, 0>> >>, << <<Wide>>, <<0, 1>> >>},
  Highlights <- {{}, {1}}
\* A coloured pair and a tile above, a dim letter, an inverse tile and a lead at the edge below; blocks that
\* overlap, reach past each edge, or have an ink, a tint or both; three, one or no overlays.
Painted(bg, flags, tile) == [bg |-> bg, fg |-> <<"own fg">>, flags |-> flags, tile |-> tile]
Sheet == [row \in 0..1 |->
  [col \in 0..2 |-> IF row = 0 THEN <<Painted(<<"own bg">>, {"lead"}, FALSE), Painted(<<"own bg">>, {"spacer"}, FALSE),
                                      Painted(<<>>, {}, TRUE)>>[col + 1]
                   ELSE <<Painted(<<>>, {"dim"}, FALSE), Painted(<<>>, {"inverse"}, TRUE),
                          Painted(<<>>, {"lead"}, FALSE)>>[col + 1]]]
Deco(id, side, x, width, height, layer, tints, inks, ruler) ==
  [markerId |-> id, anchor |-> side, x |-> x, width |-> width, height |-> height, layer |-> layer,
   tints |-> tints, inks |-> inks, ruler |-> ruler]
Over(active, selection, matches, composed, selectionFg, found, current) ==
  [active |-> active, selection |-> selection, matches |-> matches, composed |-> composed,
   selectionFg |-> selectionFg, found |-> found, current |-> current]
K == INSTANCE Layers WITH
  Rows <- 2, Cols <- 3, Text <- Sheet, Word <- 16, Limit <- 2, MaxPage <- 3, MaxMoves <- 2, MaxSteps <- 4,
  Marked <- {[back |-> 2, at |-> <<0, 2>>], [back |-> 1, at |-> <<1, 1>>]},
  Options <- {Deco(1, "left", 0, 1, 2, "bottom", TRUE, FALSE, "full"), Deco(2, "right", 0, 1, 1, "top", TRUE, TRUE, "center"),
              Deco(1, "right", 1, 9, 1, "bottom", FALSE, TRUE, "none"), Deco(2, "left", 2, 5, 3, "top", TRUE, FALSE, "left")},
  Overlays <- {Over({}, {}, {}, {}, FALSE, <<>>, 0),
               Over({<<0, 1, 1>>}, {<<0, 0, 2>>, <<1, 0, 1>>}, {<<0, 1, 1>>, <<1, 2, 2>>}, {}, TRUE, <<0, 1, 1, 5>>, 3),
               Over({}, {<<1, 1, 2>>}, {<<0, 0, 0>>}, {<<0, 0>>, <<0, 1>>}, FALSE, <<2>>, 0)}

CompositionRests == ImeInit /\ area.value = <<>>
SearchRests == SearchInit /\ back.buffer = <<>>
SurfaceRests == SurfaceInit /\ live = 1
AtlasRests == caches = 0 /\ tiers = 0 /\ quiet = 0 /\ packed = 0 /\ refused = 0 /\ atlasChanges = 0
GlyphRests == glyph = 0
ConsumersRest == engine = 0 /\ grid = 0 /\ copy = 0 /\ phase = 0 /\ view = 0 /\ outcome = "" /\ whole = 0
RunsRest == line = 0 /\ run = 0 /\ anchor = 0 /\ hint = 0 /\ spot = 0 /\ covered = 0
LayersRest == /\ markers = 0 /\ buffer = 0 /\ known = 0 /\ page = 0 /\ over = 0 /\ bar = 0 /\ log = 0
              /\ closed = 0 /\ spent = 0

Init ==
  \/ /\ part = "composition" /\ ImeInit
     /\ SearchRests /\ LinkInit /\ SurfaceRests /\ AtlasRests
     /\ GlyphRests /\ ConsumersRest /\ RunsRest /\ LayersRest
  \/ /\ part = "search" /\ SearchInit
     /\ CompositionRests /\ LinkInit /\ SurfaceRests /\ AtlasRests
     /\ GlyphRests /\ ConsumersRest /\ RunsRest /\ LayersRest
  \/ /\ part = "tracker" /\ LinkInit
     /\ CompositionRests /\ SearchRests /\ SurfaceRests /\ AtlasRests
     /\ GlyphRests /\ ConsumersRest /\ RunsRest /\ LayersRest
  \/ /\ part = "surface" /\ SurfaceInit
     /\ CompositionRests /\ SearchRests /\ LinkInit /\ AtlasRests
     /\ GlyphRests /\ ConsumersRest /\ RunsRest /\ LayersRest
  \/ /\ part = "atlas" /\ A!AtlasInit
     /\ CompositionRests /\ SearchRests /\ LinkInit /\ SurfaceRests
     /\ GlyphRests /\ ConsumersRest /\ RunsRest /\ LayersRest
  \/ /\ part = "glyph" /\ G!GlyphInit
     /\ CompositionRests /\ SearchRests /\ LinkInit /\ SurfaceRests
     /\ AtlasRests /\ ConsumersRest /\ RunsRest /\ LayersRest
  \/ /\ part = "grid" /\ F!GridInit
     /\ CompositionRests /\ SearchRests /\ LinkInit /\ SurfaceRests
     /\ AtlasRests /\ GlyphRests /\ RunsRest /\ LayersRest
  \/ /\ part = "preedit" /\ P!RunInit
     /\ CompositionRests /\ SearchRests /\ LinkInit /\ SurfaceRests
     /\ AtlasRests /\ GlyphRests /\ ConsumersRest /\ LayersRest
  \/ /\ part = "layers" /\ K!LayersInit
     /\ CompositionRests /\ SearchRests /\ LinkInit /\ SurfaceRests
     /\ AtlasRests /\ GlyphRests /\ ConsumersRest /\ RunsRest
Next ==
  \/ part = "composition" /\ ImeNext /\ UNCHANGED <<part, searchVars, linkVars, surfaceVars, atlas, glyph, consumers, runs, layers>>
  \/ part = "search" /\ SearchNext /\ UNCHANGED <<part, imeVars, linkVars, surfaceVars, atlas, glyph, consumers, runs, layers>>
  \/ part = "tracker" /\ LinkNext /\ UNCHANGED <<part, imeVars, searchVars, surfaceVars, atlas, glyph, consumers, runs, layers>>
  \/ part = "surface" /\ SurfaceNext /\ UNCHANGED <<part, imeVars, searchVars, linkVars, atlas, glyph, consumers, runs, layers>>
  \/ part = "atlas" /\ A!AtlasNext /\ UNCHANGED <<part, imeVars, searchVars, linkVars, surfaceVars, glyph, consumers, runs, layers>>
  \/ part = "glyph" /\ G!GlyphNext /\ UNCHANGED <<part, imeVars, searchVars, linkVars, surfaceVars, atlas, consumers, runs, layers>>
  \/ part = "grid" /\ F!GridNext /\ UNCHANGED <<part, imeVars, searchVars, linkVars, surfaceVars, atlas, glyph, runs, layers>>
  \/ part = "preedit" /\ P!RunNext /\ UNCHANGED <<part, imeVars, searchVars, linkVars, surfaceVars, atlas, glyph, consumers, layers>>
  \/ part = "layers" /\ K!LayersNext /\ UNCHANGED <<part, imeVars, searchVars, linkVars, surfaceVars, atlas, glyph, consumers, runs>>
Spec == Init /\ [][Next]_vars

-----------------------------------------------------------------------------
\* GlyphAtlas: a grid that fits draws its own glyphs.
GridsAreRight == part = "atlas" => A!GridsAreRight
\* BuiltinGlyphs: lines meet and blocks tile at the edges of a cell.
GlyphsFit == part = "glyph" => G!GlyphsFit
\* FrameGrid: the renderer's grid and the widget's mirror show the engine's screen;
\* Layers: what lies over the text is painted in its order, and on the ruler.
FramesAreShown == (part = "grid" => F!FramesAreShown) /\ (part = "layers" => K!LayersAreShown)
\* Preedit: what a composition and a suggestion draw cuts no glyph and hides no text.
RunsAreWhole == part = "preedit" => P!RunsAreWhole
=============================================================================
